---- MODULE Spec2Model ----
(***************************************************************************)
(* Model of the MCQ study tool's ingestion and answer-checking logic:      *)
(*   - the tabular importer (FileImporter.parseCSV),                       *)
(*   - the OCR cleaning step (validateAndCleanQuestions),                  *)
(*   - the two answer-correctness implementations (Practice statistics    *)
(*     and QuestionCard.isOptionCorrect).                                  *)
(*                                                                         *)
(* JavaScript strings are modelled as sequences of one-character strings,  *)
(* so that trim, toLowerCase, includes and the regular expressions are     *)
(* computed character by character, as the engine computes them.          *)
(***************************************************************************)
EXTENDS Integers, Sequences, FiniteSets, TLC

VARIABLES
    \* ---- Practice page / QuestionCard (part_003, part_004:385-460)
    question,           \* currentQ: [options, correctAnswer]
    answers,            \* answers[currentQ.id]: selected option text, or Undefined
    stats,              \* [correct, incorrect] recomputed on every render
    isSelectedCorrect,  \* QuestionCard's verdict for the selected option
    \* ---- option deduplication (part_004:180-189, routes.ts:173-190)
    rawOptions,         \* option strings entering the clean-up
    csvOptions,         \* deduplicatedOptions of the tabular importer
    ocrDeduped,         \* options after the OCR filter, before padding
    ocrOptions,         \* options returned by validateAndCleanQuestions
    dedupPc,
    \* ---- column resolution (part_004:114-133)
    colRow, colTarget, colVal, colPc,
    \* ---- tabular import (part_004:85-247)
    headers,            \* results.meta.fields
    sourceName,
    rowCount,           \* results.data.length
    index,              \* forEach index of the next row
    row,                \* the row handled by the last forEach step
    processedQuestions,
    skippedCount,
    imported,           \* Topics handed to onImport, in call order
    toast,              \* title of the last toast, "" before any
    uuidCount,          \* number of uuidv4() calls made so far
    importPc,
    \* ---- OCR extraction (routes.ts:116-209, api-handler.ts:112-194,
    \*      worker.ts:30-63, ocr.tsx:56-96)
    request,            \* path and method of the request being served
    responseText,       \* message.response.text() of the LLM call
    entryPoint,         \* the server that serves /api/extract-mcq
    extraction,         \* what the handler's JSON extraction came to
    written,            \* the res.status(..).json(..) calls of the handler, in order
    delivered,          \* the response the client receives
    allQuestions,       \* processImages: Questions collected from the response
    ocrToast,           \* title of the toast raised by processImages, "" if none
    extractPc,
    \* ---- OCR page, several images (ocr.tsx:12-131)
    ocrServer,          \* the server the page talks to
    selectedFiles,      \* per selected file: what reading and posting it comes to
    fileIndex,          \* position of the for loop in selectedFiles
    collected,          \* the local allQuestions of processImages
    pageToasts,         \* titles of the toasts raised, in order
    extractedQuestions,
    showTopicSelection,
    loading,
    ocrPc,
    \* ---- topic store (useStore, /api/topics)
    topics,             \* the topics state of useStore
    localData,          \* localStorage[STORAGE_KEY]: whether set, and the list
    dbTopics,           \* rows of the topics table, in insertion order
    calls,              \* per addTopic call: position, topic posted, row read, response
    accepted,           \* id and pageNo of every Question handed to addTopic
    \* ---- settings page (settings.tsx, useStore key savers, /api/keys)
    keyState,           \* openaiKey, geminiKey, aiProvider of useStore
    keyInputs,          \* openaiInput, geminiInput, selectedProvider of the page
    keyRequests,        \* per request of handleSave: position, body, record found
    keyRows,            \* rows of the api_keys table, in insertion order
    settingsToast       \* title of the toast raised by handleSave, "" if none

practiceVars == <<question, answers, stats, isSelectedCorrect>>
dedupVars == <<rawOptions, csvOptions, ocrDeduped, ocrOptions, dedupPc>>
columnVars == <<colRow, colTarget, colVal, colPc>>
importVars == <<headers, sourceName, rowCount, index, row, processedQuestions,
                skippedCount, imported, toast, uuidCount, importPc>>
settingsVars == <<keyState, keyInputs, keyRequests, keyRows, settingsToast>>
storeVars == <<topics, localData, dbTopics, calls, accepted>>
ocrVars == <<ocrServer, selectedFiles, fileIndex, collected, pageToasts,
             extractedQuestions, showTopicSelection, loading, ocrPc>>
extractVars == <<request, responseText, entryPoint, extraction, written, delivered,
                 allQuestions, ocrToast, extractPc>>
vars == <<practiceVars, dedupVars, columnVars, importVars, extractVars, ocrVars, storeVars, settingsVars>>

-----------------------------------------------------------------------------
(* JavaScript values and string primitives                                 *)

\* undefined / null: a value of sequence type that is no string of characters
Undefined == <<"undefined">>

\* JS truthiness of a string-or-undefined value: "" and undefined are falsy
Truthy(v) == v # Undefined /\ v # <<>>

UpperChars == <<"A", "B", "C", "D", "E", "F", "G", "H", "I", "J", "K", "L", "M",
                "N", "O", "P", "Q", "R", "S", "T", "U", "V", "W", "X", "Y", "Z">>
LowerChars == <<"a", "b", "c", "d", "e", "f", "g", "h", "i", "j", "k", "l", "m",
                "n", "o", "p", "q", "r", "s", "t", "u", "v", "w", "x", "y", "z">>
DigitChars == <<"0", "1", "2", "3", "4", "5", "6", "7", "8", "9">>

PosIn(seq, c) == CHOOSE i \in 1..Len(seq) : seq[i] = c

\* the case mappings of the letters A-Z / a-z; every other character maps to itself
LowerOf == [c \in {UpperChars[i] : i \in 1..26} |-> LowerChars[PosIn(UpperChars, c)]]
UpperOf == [c \in {LowerChars[i] : i \in 1..26} |-> UpperChars[PosIn(LowerChars, c)]]

toLowerChar(c) == IF c \in DOMAIN LowerOf THEN LowerOf[c] ELSE c
toUpperChar(c) == IF c \in DOMAIN UpperOf THEN UpperOf[c] ELSE c

\* String.prototype.toLowerCase / toUpperCase
toLowerCase(s) == [i \in 1..Len(s) |-> toLowerChar(s[i])]
toUpperCase(s) == [i \in 1..Len(s) |-> toUpperChar(s[i])]

\* the regular expression class \s, and the white space trim() removes
IsSpace(c) == c \in {" ", "\t", "\n"}

SetMin(S) == CHOOSE x \in S : \A y \in S : x <= y
SetMax(S) == CHOOSE x \in S : \A y \in S : x >= y

\* String.prototype.trim
trim(s) ==
    LET keep == {i \in 1..Len(s) : ~IsSpace(s[i])}
    IN  IF keep = {} THEN <<>> ELSE SubSeq(s, SetMin(keep), SetMax(keep))

\* String.prototype.includes
includes(s, t) == \E i \in 0..(Len(s) - Len(t)) : SubSeq(s, i + 1, i + Len(t)) = t

\* charCodeAt(0) of a letter A-Z, and parseInt of one digit
charCode(c) == 64 + PosIn(UpperChars, c)
parseInt(c) == PosIn(DigitChars, c) - 1

\* mutant: an index outside the array wraps around
At_Wrap(arr, i) ==
    IF Len(arr) = 0 \/ i < 0 THEN Undefined ELSE arr[(i % Len(arr)) + 1]

\* options[i] with a 0-based index: undefined outside the array
At(arr, i) == IF i + 1 \in DOMAIN arr THEN arr[i + 1] ELSE Undefined

\* Array.prototype.indexOf: first 0-based index, -1 when absent
indexOf(arr, x) ==
    IF \E i \in DOMAIN arr : arr[i] = x
    THEN SetMin({i \in DOMAIN arr : arr[i] = x}) - 1
    ELSE -1

\* the maximal number of options a stored Question carries: the four option
\* columns of the importer, options.slice(0, 4) on the OCR path
MaxOptions == 4

-----------------------------------------------------------------------------
(* Answer-format resolution                                                *)

sOption == <<"o", "p", "t", "i", "o", "n">>

\* /^Option\s?[A-D]$/i.test(t) || /^Option\s?[1-4]$/i.test(t)
IsLabeledForm(t) ==
    /\ Len(t) \in {7, 8}
    /\ toLowerCase(SubSeq(t, 1, 6)) = sOption
    /\ Len(t) = 8 => IsSpace(t[7])
    /\ \/ toUpperChar(t[Len(t)]) \in {"A", "B", "C", "D"}
       \/ t[Len(t)] \in {"1", "2", "3", "4"}

\* /^[A-D]$/i.test(t)
IsBareLetterForm(t) == Len(t) = 1 /\ toUpperChar(t[1]) \in {"A", "B", "C", "D"}

\* t.match(/Option\s?(CLASS)/i): the captured character of the leftmost match,
\* or "" for null. \s? is greedy: the space is consumed when CLASS follows it.
MatchOptionClass(t, class) ==
    LET cap(i) ==
            IF i + 5 > Len(t) \/ toLowerCase(SubSeq(t, i, i + 5)) # sOption THEN ""
            ELSE IF i + 7 <= Len(t) /\ IsSpace(t[i + 6]) /\ toUpperChar(t[i + 7]) \in class
                 THEN t[i + 7]
            ELSE IF i + 6 <= Len(t) /\ toUpperChar(t[i + 6]) \in class
                 THEN t[i + 6]
            ELSE ""
        hits == {i \in 1..Len(t) : cap(i) # ""}
    IN  IF hits = {} THEN "" ELSE cap(SetMin(hits))

matchLetter(t) == MatchOptionClass(t, {"A", "B", "C", "D"})
matchNumber(t) == MatchOptionClass(t, {DigitChars[i] : i \in 1..10})

\* the index computed for the labeled-option form
LabeledIndex(t) ==
    IF matchLetter(t) # "" THEN charCode(toUpperChar(matchLetter(t))) - 65
    ELSE IF matchNumber(t) # "" THEN parseInt(matchNumber(t)) - 1
    ELSE -1

\* the index computed for the bare letter form
BareLetterIndex(t) == charCode(toUpperCase(t)[1]) - 65

\* mutant: an index that misses falls through to the literal comparison
StatsIsCorrect_FallThrough(q, ans) ==
    LET correctText == trim(q.correctAnswer)
    IN  \/ IsLabeledForm(correctText)
             /\ LabeledIndex(correctText) >= 0
             /\ At(q.options, LabeledIndex(correctText)) = ans
        \/ IsBareLetterForm(correctText)
             /\ At(q.options, BareLetterIndex(correctText)) = ans
        \/ toLowerCase(trim(ans)) = toLowerCase(correctText)

\* Practice statistics: is the stored answer `ans` correct for question q
StatsIsCorrect(q, ans) ==
    LET correctText == trim(q.correctAnswer)
    IN  IF IsLabeledForm(correctText)
        THEN LabeledIndex(correctText) >= 0 /\ At(q.options, LabeledIndex(correctText)) = ans
        ELSE IF IsBareLetterForm(correctText)
        THEN At(q.options, BareLetterIndex(correctText)) = ans
        ELSE toLowerCase(trim(ans)) = toLowerCase(correctText)

\* mutant: the literal comparison forgets to lower-case the option text
isOptionCorrect_CaseSensitive(q, optionText, idx) ==
    LET correctText == trim(q.correctAnswer)
    IN  IF IsLabeledForm(correctText)
        THEN idx = LabeledIndex(correctText)
        ELSE IF IsBareLetterForm(correctText)
        THEN idx = BareLetterIndex(correctText)
        ELSE trim(optionText) = toLowerCase(correctText)

\* QuestionCard.isOptionCorrect(optionText, index)
isOptionCorrect(q, optionText, idx) ==
    LET correctText == trim(q.correctAnswer)
    IN  IF IsLabeledForm(correctText)
        THEN idx = LabeledIndex(correctText)
        ELSE IF IsBareLetterForm(correctText)
        THEN idx = BareLetterIndex(correctText)
        ELSE toLowerCase(trim(optionText)) = toLowerCase(correctText)

\* QuestionCard: isSelectedCorrect for the selected option text
CardIsSelectedCorrect(q, selectedOption) ==
    IF Truthy(selectedOption)
    THEN isOptionCorrect(q, selectedOption, indexOf(q.options, selectedOption))
    ELSE FALSE

\* Practice: the stats object over the (single) practised question
ComputeStats(q, ans) ==
    IF Truthy(ans)
    THEN IF StatsIsCorrect(q, ans) THEN [correct |-> 1, incorrect |-> 0]
                                   ELSE [correct |-> 0, incorrect |-> 1]
    ELSE [correct |-> 0, incorrect |-> 0]

-----------------------------------------------------------------------------
(* Practice page: one question being practised                             *)

\* option texts a stored Question may carry
OptionTexts == { <<"V", "e", "n", "u", "s">>, <<"v", "e", "n", "u", "s">>,
                 <<"B">>, <<"O", "p", "t", "i", "o", "n", " ", "B">>, <<>> }

\* correctAnswer texts: labeled-option, bare letter and literal forms
CorrectAnswers == {
    <<"O", "p", "t", "i", "o", "n", " ", "B">>,
    <<"o", "p", "t", "i", "o", "n", " ", "b">>,
    <<"O", "p", "t", "i", "o", "n", "B">>,
    <<"O", "p", "t", "i", "o", "n", "\t", "A">>,
    <<"O", "p", "t", "i", "o", "n", " ", "2">>,
    <<"O", "P", "T", "I", "O", "N", "1">>,
    <<"O", "p", "t", "i", "o", "n", " ", "D">>,
    <<"O", "p", "t", "i", "o", "n", " ", "4">>,
    <<"O", "p", "t", "i", "o", "n", " ", "5">>,
    <<"O", "p", "t", "i", "o", "n", " ", "E">>,
    <<"O", "p", "t", "i", "o", "n", " ", " ", "B">>,
    <<"B">>, <<"b">>, <<" ", "A", " ">>, <<"D">>, <<"E">>,
    <<"V", "e", "n", "u", "s">>, <<" ", "V", "E", "N", "U", "S", "\n">> }

OptionLists == UNION { [1..n -> OptionTexts] : n \in 0..MaxOptions }

PracticeQuestions ==
    { [options |-> o, correctAnswer |-> c] : o \in OptionLists, c \in CorrectAnswers }

IdlePractice ==
    /\ question = [options |-> <<>>, correctAnswer |-> <<>>]
    /\ answers = Undefined
    /\ stats = [correct |-> 0, incorrect |-> 0]
    /\ isSelectedCorrect = FALSE

\* Practice mounted on a question, nothing answered yet
InitPractice ==
    /\ question \in PracticeQuestions
    /\ answers = Undefined
    /\ stats = ComputeStats(question, Undefined)
    /\ isSelectedCorrect = CardIsSelectedCorrect(question, Undefined)

\* handleAnswer(option): a click on one rendered option stores its text, and
\* the re-render recomputes the statistics and the card's verdict
handleAnswer(option) ==
    /\ answers' = option
    /\ stats' = ComputeStats(question, option)
    /\ isSelectedCorrect' = CardIsSelectedCorrect(question, option)
    /\ UNCHANGED <<question, dedupVars, columnVars, importVars, extractVars, ocrVars, storeVars, settingsVars>>

NextPractice == \E i \in DOMAIN question.options : handleAnswer(question.options[i])

-----------------------------------------------------------------------------
(* Option clean-up: the tabular importer's filter and deduplication, and   *)
(* the OCR route's validateAndCleanQuestions                               *)

\* options.filter(o => o && o.toString().trim().length > 0)
FilterNonBlank(options) ==
    SelectSeq(options, LAMBDA o : Truthy(o) /\ Len(trim(o)) > 0)

\* options.filter(opt => { normalized = opt.trim().toLowerCase();
\*   if (seen.has(normalized)) return false; seen.add(normalized); return true })
RECURSIVE CsvFilterSeen(_, _)
CsvFilterSeen(options, seen) ==
    IF options = <<>> THEN <<>>
    ELSE LET normalized == toLowerCase(trim(Head(options)))
         IN  IF normalized \in seen
             THEN CsvFilterSeen(Tail(options), seen)
             ELSE <<Head(options)>> \o CsvFilterSeen(Tail(options), seen \cup {normalized})

\* mutant: the seen-set holds the trimmed text without lower-casing it
RECURSIVE CsvFilterSeen_CaseSensitive(_, _)
CsvFilterSeen_CaseSensitive(options, seen) ==
    IF options = <<>> THEN <<>>
    ELSE LET normalized == trim(Head(options))
         IN  IF normalized \in seen
             THEN CsvFilterSeen_CaseSensitive(Tail(options), seen)
             ELSE <<Head(options)>>
                      \o CsvFilterSeen_CaseSensitive(Tail(options), seen \cup {normalized})

deduplicatedOptions_CaseSensitive(options) == CsvFilterSeen_CaseSensitive(options, {})

deduplicatedOptions(options) == CsvFilterSeen(options, {})

\* (q.options || []).map(opt => String(opt).trim())
OcrTrimOptions(options) == [i \in 1..Len(options) |-> trim(options[i])]

\* options.filter(opt => { normalized = opt.toLowerCase(); ... })
RECURSIVE OcrFilterSeen(_, _)
OcrFilterSeen(options, seen) ==
    IF options = <<>> THEN <<>>
    ELSE LET normalized == toLowerCase(Head(options))
         IN  IF normalized \in seen
             THEN OcrFilterSeen(Tail(options), seen)
             ELSE <<Head(options)>> \o OcrFilterSeen(Tail(options), seen \cup {normalized})

OcrDedupOptions(options) == OcrFilterSeen(options, {})

\* while (options.length < 4) options.push(""); options = options.slice(0, 4)
RECURSIVE PadOptions(_)
PadOptions(options) ==
    IF Len(options) < 4 THEN PadOptions(Append(options, <<>>)) ELSE options

SliceOptions(options) == SubSeq(options, 1, IF Len(options) < 4 THEN Len(options) ELSE 4)

\* the options of one question as validateAndCleanQuestions returns them
OcrCleanOptions(options) == SliceOptions(PadOptions(OcrDedupOptions(OcrTrimOptions(options))))

\* option cells / LLM option strings entering the clean-up
DedupTexts == { <<"a">>, <<"A">>, <<" ", "a">>, <<"b">>, <<>>, <<" ">> }

\* longest option list an LLM response is given in the model
MaxRawOptions == 4

RawOptionLists == UNION { [1..n -> DedupTexts] : n \in 0..MaxRawOptions }

IdleDedup ==
    /\ rawOptions = <<>>
    /\ csvOptions = <<>>
    /\ ocrDeduped = <<>>
    /\ ocrOptions = <<>>
    /\ dedupPc = {}

InitDedup ==
    /\ rawOptions \in RawOptionLists
    /\ csvOptions = <<>>
    /\ ocrDeduped = <<>>
    /\ ocrOptions = <<>>
    /\ dedupPc = {}

\* the importer's clean-up of the option cells collected for one row
CsvCleanOptions ==
    /\ "csv" \notin dedupPc
    /\ csvOptions' = deduplicatedOptions(FilterNonBlank(rawOptions))
    /\ dedupPc' = dedupPc \cup {"csv"}
    /\ UNCHANGED <<rawOptions, ocrDeduped, ocrOptions, practiceVars, columnVars, importVars, extractVars, ocrVars, storeVars, settingsVars>>

\* validateAndCleanQuestions on the options of one question
OcrCleanQuestion ==
    /\ "ocr" \notin dedupPc
    /\ ocrDeduped' = OcrDedupOptions(OcrTrimOptions(rawOptions))
    /\ ocrOptions' = OcrCleanOptions(rawOptions)
    /\ dedupPc' = dedupPc \cup {"ocr"}
    /\ UNCHANGED <<rawOptions, csvOptions, practiceVars, columnVars, importVars, extractVars, ocrVars, storeVars, settingsVars>>

NextDedup == CsvCleanOptions \/ OcrCleanQuestion

-----------------------------------------------------------------------------
(* JavaScript objects: a sequence of [k, v] entries in insertion order     *)

\* a canonical array index: "0", or digits without a leading zero
IsArrayIndex(k) ==
    /\ Len(k) > 0
    /\ \A i \in 1..Len(k) : k[i] \in {DigitChars[d] : d \in 1..10}
    /\ Len(k) > 1 => k[1] # "0"

RECURSIVE NumValue(_)
NumValue(k) ==
    IF k = <<>> THEN 0
    ELSE 10 * NumValue(SubSeq(k, 1, Len(k) - 1)) + parseInt(k[Len(k)])

\* the entries of obj sorted by ascending integer key
RECURSIVE SortedIndexKeys(_)
SortedIndexKeys(S) ==
    IF S = {} THEN <<>>
    ELSE LET least == CHOOSE k \in S : \A o \in S : NumValue(k) <= NumValue(o)
         IN  <<least>> \o SortedIndexKeys(S \ {least})

\* Object.keys(obj): integer-like keys in ascending order, then the other
\* keys in insertion order (OrdinaryOwnPropertyKeys)
ObjectKeys(obj) ==
    LET keys == [i \in 1..Len(obj) |-> obj[i].k]
    IN  SortedIndexKeys({keys[i] : i \in {j \in 1..Len(obj) : IsArrayIndex(keys[j])}})
            \o SelectSeq(keys, LAMBDA k : ~IsArrayIndex(k))

\* obj[key]: undefined when the object has no such property
Get(obj, key) ==
    IF \E i \in 1..Len(obj) : obj[i].k = key
    THEN obj[CHOOSE i \in 1..Len(obj) : obj[i].k = key].v
    ELSE Undefined

\* Array.prototype.find over a sequence of strings: first match or undefined
Find(seq, Test(_)) ==
    IF \E i \in 1..Len(seq) : Test(seq[i])
    THEN seq[SetMin({i \in 1..Len(seq) : Test(seq[i])})]
    ELSE Undefined

-----------------------------------------------------------------------------
(* Column resolution: getVal of the tabular importer                       *)

s_question == <<"q", "u", "e", "s", "t", "i", "o", "n">>
s_no == <<"n", "o">>
s_id == <<"i", "d">>
s_number == <<"n", "u", "m", "b", "e", "r">>

\* the predicate of the second find: the fuzzy "contains" match
FuzzyKeyTest(k, target) ==
    LET keyLower == toLowerCase(k)
        targetLower == toLowerCase(target)
    IN  IF /\ targetLower = s_question
           /\ \/ includes(keyLower, s_no)
              \/ includes(keyLower, s_id)
              \/ includes(keyLower, s_number)
        THEN FALSE
        ELSE includes(keyLower, targetLower)

\* mutant: the "Question" special case is missing
getVal_NoSpecialCase(r, target) ==
    LET exactKey == Find(ObjectKeys(r),
                         LAMBDA k : toLowerCase(trim(k)) = toLowerCase(target))
        fuzzyKey == Find(ObjectKeys(r),
                         LAMBDA k : includes(toLowerCase(k), toLowerCase(target)))
    IN  IF Truthy(exactKey) THEN Get(r, exactKey)
        ELSE IF Truthy(fuzzyKey) THEN Get(r, fuzzyKey)
        ELSE Undefined

\* getVal(target) for the row r
getVal(r, target) ==
    LET exactKey == Find(ObjectKeys(r),
                         LAMBDA k : toLowerCase(trim(k)) = toLowerCase(target))
        fuzzyKey == Find(ObjectKeys(r), LAMBDA k : FuzzyKeyTest(k, target))
    IN  IF Truthy(exactKey) THEN Get(r, exactKey)
        ELSE IF Truthy(fuzzyKey) THEN Get(r, fuzzyKey)
        ELSE Undefined

\* headers of an uploaded sheet, as transformHeader leaves them (trimmed)
ColumnHeaderPool == {
    <<"Q", "u", "e", "s", "t", "i", "o", "n">>,
    <<"Q", "U", "E", "S", "T", "I", "O", "N">>,
    <<"Q", "u", "e", "s", "t", "i", "o", "n", " ", "N", "o", ".">>,
    <<"Q", "u", "e", "s", "t", "i", "o", "n", " ", "T", "e", "x", "t">>,
    <<"V", "a", "l", "i", "d", " ", "Q", "u", "e", "s", "t", "i", "o", "n">>,
    <<"C", "o", "r", "r", "e", "c", "t", " ", "A", "n", "s", "w", "e", "r">>,
    <<"A", "n", "s", "w", "e", "r", " ", "K", "e", "y">>,
    <<"7">> }

\* targets the importer resolves with getVal
ColumnTargets == {
    <<"Q", "u", "e", "s", "t", "i", "o", "n">>,
    <<"C", "o", "r", "r", "e", "c", "t", " ", "A", "n", "s", "w", "e", "r">>,
    <<"C", "o", "r", "r", "e", "c", "t">>,
    <<"A", "n", "s", "w", "e", "r">> }

\* most columns of a sheet in the column-resolution model
MaxHeaders == 3

\* the cell of column i: a text that names its column
CellMark(i) == <<"v", DigitChars[i + 1]>>

\* rows with pairwise distinct headers, at most one cell of which is empty
ColumnRows ==
    UNION { { [i \in 1..n |-> [k |-> h[i], v |-> IF i = e THEN <<>> ELSE CellMark(i)]] :
                h \in {f \in [1..n -> ColumnHeaderPool] :
                          \A i, j \in 1..n : i # j => f[i] # f[j]},
                e \in 0..n }
            : n \in 1..MaxHeaders }

-----------------------------------------------------------------------------
(* Tabular import: the complete callback of parseCSV                       *)

s_Question == <<"Q", "u", "e", "s", "t", "i", "o", "n">>
s_QuestionNo == <<"Q", "u", "e", "s", "t", "i", "o", "n", " ", "N", "o", ".">>
s_Topic == <<"T", "o", "p", "i", "c">>
s_CorrectAnswer == <<"C", "o", "r", "r", "e", "c", "t", " ", "A", "n", "s", "w", "e", "r">>
s_Correct == <<"C", "o", "r", "r", "e", "c", "t">>
s_Answer == <<"A", "n", "s", "w", "e", "r">>
s_Explanation == <<"E", "x", "p", "l", "a", "n", "a", "t", "i", "o", "n">>
s_General == <<"G", "e", "n", "e", "r", "a", "l">>

optionLabels == << <<"O", "p", "t", "i", "o", "n", " ", "A">>,
                   <<"O", "p", "t", "i", "o", "n", " ", "B">>,
                   <<"O", "p", "t", "i", "o", "n", " ", "C">>,
                   <<"O", "p", "t", "i", "o", "n", " ", "D">> >>
legacyLabels == << <<"O", "p", "t", "i", "o", "n", "1">>, <<"O", "p", "t", "i", "o", "n", "2">>,
                   <<"O", "p", "t", "i", "o", "n", "3">>, <<"O", "p", "t", "i", "o", "n", "4">> >>
letterLabels == << <<"A">>, <<"B">>, <<"C">>, <<"D">> >>

\* a || b
Or(a, b) == IF Truthy(a) THEN a ELSE b

\* labels.forEach(optKey => { if (Lookup(optKey)) options.push(Lookup(optKey)) })
PushTruthy(labels, Lookup(_)) ==
    SelectSeq([i \in 1..Len(labels) |-> Lookup(labels[i])], Truthy)

\* the options collected for row r by the four strategies, before the filter
RowOptions(r) ==
    LET standard == PushTruthy(optionLabels, LAMBDA optKey : Get(r, optKey))
        foundStandardOptions == standard # <<>>
        legacy == IF ~foundStandardOptions \/ Len(standard) = 0
                  THEN PushTruthy(legacyLabels, LAMBDA optKey : Get(r, optKey))
                  ELSE standard
        letters == IF Len(legacy) = 0
                   THEN PushTruthy(letterLabels, LAMBDA optKey : Get(r, optKey))
                   ELSE legacy
    IN  IF Len(letters) = 0
        THEN PushTruthy(optionLabels, LAMBDA optKey : getVal(r, optKey))
        ELSE letters

\* String(n) for n >= 0
RECURSIVE NumToString(_)
NumToString(n) ==
    IF n < 10 THEN <<DigitChars[n + 1]>>
    ELSE NumToString(n \div 10) \o <<DigitChars[(n % 10) + 1]>>

\* sourceName.replace(/\.(csv|txt|xlsx|xls)$/i, '')
StripExtension(name) ==
    LET lower == toLowerCase(name)
        EndsWith(suffix) ==
            /\ Len(lower) >= Len(suffix)
            /\ SubSeq(lower, Len(lower) - Len(suffix) + 1, Len(lower)) = suffix
        Cut(k) == SubSeq(name, 1, Len(name) - k)
    IN  IF EndsWith(<<".", "x", "l", "s", "x">>) THEN Cut(5)
        ELSE IF EndsWith(<<".", "c", "s", "v">>) \/ EndsWith(<<".", "t", "x", "t">>)
                  \/ EndsWith(<<".", "x", "l", "s">>) THEN Cut(4)
        ELSE name

\* mutant: the 'Answer' column is preferred to the other three
CorrectVal_AnswerFirst(r) ==
    Or(Or(Or(getVal(r, s_Answer), Get(r, s_CorrectAnswer)),
          getVal(r, s_CorrectAnswer)),
       getVal(r, s_Correct))

\* row['Correct Answer'] || getVal('Correct Answer') || getVal('Correct') || getVal('Answer')
CorrectVal(r) ==
    Or(Or(Or(Get(r, s_CorrectAnswer), getVal(r, s_CorrectAnswer)),
          getVal(r, s_Correct)),
       getVal(r, s_Answer))

\* questionsByTopic after processedQuestions.forEach: an object whose keys are
\* created in first-seen order
RECURSIVE GroupByTopic(_, _)
GroupByTopic(qs, obj) ==
    IF qs = <<>> THEN obj
    ELSE LET q == Head(qs)
             finalTopic == Or(q.topic, s_General)
             at == {i \in 1..Len(obj) : obj[i].k = finalTopic}
         IN  IF at = {}
             THEN GroupByTopic(Tail(qs), Append(obj, [k |-> finalTopic, v |-> <<q>>]))
             ELSE GroupByTopic(Tail(qs),
                     [obj EXCEPT ![SetMin(at)].v = Append(@, q)])

\* the Topics passed to onImport, in Object.entries order; the uuidv4() calls
\* so far number uuids
ImportedTopics(qs, uuids) ==
    LET obj == GroupByTopic(qs, <<>>)
        names == ObjectKeys(obj)
    IN  [i \in 1..Len(names) |->
            [id |-> uuids + i, name |-> names[i], questions |-> Get(obj, names[i])]]

\* the sheets given to the importer: the header row and, per column, the
\* cells a data row may hold in it, and further rows (extra)
ImportSheets == {
    \* the canonical header row
    [headers |-> << <<"Q", "u", "e", "s", "t", "i", "o", "n", " ", "N", "o", ".">>,
                    <<"Q", "u", "e", "s", "t", "i", "o", "n">>,
                    <<"O", "p", "t", "i", "o", "n", " ", "A">>, <<"O", "p", "t", "i", "o", "n", " ", "B">>,
                    <<"O", "p", "t", "i", "o", "n", " ", "C">>, <<"O", "p", "t", "i", "o", "n", " ", "D">>,
                    <<"C", "o", "r", "r", "e", "c", "t", " ", "A", "n", "s", "w", "e", "r">>,
                    <<"E", "x", "p", "l", "a", "n", "a", "t", "i", "o", "n">> >>,
     cells |-> << {<<"9">>}, {<<>>, <<"Q">>}, {<<"x">>}, {<<"X">>, <<"y">>}, {<<" ", "x">>, <<"z">>}, {<<>>, <<"w">>},
                  {<<>>, <<"y">>}, {<<"e">>} >>,
     \* a row without a number
     extra |-> { << <<>>, <<"Q">>, <<"x">>, <<"y">>, <<"z">>, <<"w">>, <<"y">>, <<"e">> >> } ],
    \* standard, legacy and letter option columns side by side
    [headers |-> << <<"Q", "u", "e", "s", "t", "i", "o", "n">>,
                    <<"O", "p", "t", "i", "o", "n", " ", "A">>, <<"O", "p", "t", "i", "o", "n", " ", "B">>,
                    <<"O", "p", "t", "i", "o", "n", "1">>, <<"O", "p", "t", "i", "o", "n", "2">>,
                    <<"A">>, <<"B">>,
                    <<"A", "n", "s", "w", "e", "r">> >>,
     cells |-> << {<<"Q">>}, {<<>>, <<" ">>, <<"p">>}, {<<>>, <<"q">>}, {<<>>, <<"r">>}, {<<>>, <<"s">>}, {<<"t">>}, {<<"u">>},
                  {<<"B">>} >>,
     extra |-> {} ],
    \* a numbering column is the only header that mentions the question
    [headers |-> << <<"Q", "u", "e", "s", "t", "i", "o", "n", " ", "N", "o", ".">>, <<"A">>, <<"B">>,
                    <<"C", "o", "r", "r", "e", "c", "t">> >>,
     cells |-> << {<<"1">>}, {<<>>, <<"a">>}, {<<"b">>}, {<<"A">>} >>,
     extra |-> {} ],
    \* headers that only contain the field names
    [headers |-> << <<"Q", "u", "e", "s", "t", "i", "o", "n", " ", "T", "e", "x", "t">>,
                    <<"O", "p", "t", "i", "o", "n", " ", "A", " ", "T", "e", "x", "t">>,
                    <<"O", "p", "t", "i", "o", "n", " ", "B", " ", "T", "e", "x", "t">>,
                    <<"C", "o", "r", "r", "e", "c", "t", " ", "O", "p", "t", "i", "o", "n">>,
                    <<"A", "n", "s", "w", "e", "r", " ", "N", "o", "t", "e">>,
                    <<"T", "o", "p", "i", "c", " ", "N", "a", "m", "e">> >>,
     cells |-> << {<<>>, <<"Q">>}, {<<"m">>}, {<<"M">>, <<"n">>}, {<<>>, <<"n">>}, {<<"z", "z">>}, {<<>>, <<"T">>} >>,
     extra |-> {} ],
    \* lower-case headers
    [headers |-> << <<"q", "u", "e", "s", "t", "i", "o", "n">>, <<"o", "p", "t", "i", "o", "n", " ", "a">>,
                    <<"o", "p", "t", "i", "o", "n", " ", "b">>, <<"a", "n", "s", "w", "e", "r">>, <<"t", "o", "p", "i", "c">> >>,
     cells |-> << {<<"Q">>}, {<<"k">>}, {<<"K">>, <<"l">>}, {<<>>, <<" ">>, <<"k">>}, {<<>>, <<"1", "0">>, <<"2">>} >>,
     extra |-> {} ],
    \* no header mentions the question
    [headers |-> << <<"Q">>, <<"A">>, <<"B">> >>,
     cells |-> << {<<"q">>}, {<<"a">>}, {<<"b">>} >>,
     extra |-> {} ],
    \* an empty file
    [headers |-> <<>>, cells |-> <<>>,
     extra |-> {} ] }

SourceNames == { <<"b", ".", "c", "s", "v">>, <<".", "X", "L", "S">> }

\* most data rows of a sheet
MaxRows == 2

\* all ways to pick one cell per column
RECURSIVE CellChoices(_)
CellChoices(cells) ==
    IF cells = <<>> THEN {<<>>}
    ELSE {<<c>> \o rest : c \in Head(cells), rest \in CellChoices(Tail(cells))}

\* the data rows Papa.parse may deliver under the header row hs: one object
\* per row, its keys inserted in header order
RowsOf(hs) ==
    LET sheet == CHOOSE sh \in ImportSheets : sh.headers = hs
    IN  { [i \in 1..Len(hs) |-> [k |-> hs[i], v |-> c[i]]] :
              c \in CellChoices(sheet.cells) \cup sheet.extra }

\* the values the forEach callback reads from row r
RowFields(r) ==
    [questionText |-> getVal(r, s_Question),
     deduplicatedOptions |-> deduplicatedOptions(FilterNonBlank(RowOptions(r))),
     topicCell |-> Or(Get(r, s_Topic), getVal(r, s_Topic)),
     correctVal |-> CorrectVal(r),
     explanationVal |-> Or(Get(r, s_Explanation), getVal(r, s_Explanation)),
     no |-> Get(r, s_QuestionNo)]

\* RowsOf and RowFields tabulated over the sheets
SheetRows == [hs \in {sh.headers : sh \in ImportSheets} |-> RowsOf(hs)]
RowFieldsOf == [r \in UNION {SheetRows[hs] : hs \in DOMAIN SheetRows} |-> RowFields(r)]

\* mutant: the question number is always the row position
BuildQuestion_NumbersByPosition(f, idx, uuid) ==
    [id |-> uuid,
     no |-> NumToString(idx + 1),
     question |-> f.questionText,
     options |-> f.deduplicatedOptions,
     correctAnswer |-> Or(f.correctVal, f.deduplicatedOptions[1]),
     explanation |-> f.explanationVal,
     topic |-> Or(f.topicCell, StripExtension(sourceName))]

\* the Question pushed to processedQuestions for the row whose resolved
\* fields are f
BuildQuestion(f, idx, uuid) ==
    [id |-> uuid,
     no |-> Or(f.no, NumToString(idx + 1)),
     question |-> f.questionText,
     options |-> f.deduplicatedOptions,
     correctAnswer |-> Or(f.correctVal, f.deduplicatedOptions[1]),
     explanation |-> f.explanationVal,
     topic |-> Or(f.topicCell, StripExtension(sourceName))]

\* mutant: one surviving option is enough
NormalizeRow_KeepsSingleOption(r, idx, uuid) ==
    LET f == RowFieldsOf[r]
    IN  IF ~Truthy(f.questionText) THEN [skip |-> TRUE]
        ELSE IF Len(f.deduplicatedOptions) < 1 THEN [skip |-> TRUE]
        ELSE [skip |-> FALSE, q |-> BuildQuestion(f, idx, uuid)]

\* mutant: the question text is not required
NormalizeRow_NoQuestionCheck(r, idx, uuid) ==
    LET f == RowFieldsOf[r]
    IN  IF Len(f.deduplicatedOptions) < 2 THEN [skip |-> TRUE]
        ELSE [skip |-> FALSE, q |-> BuildQuestion(f, idx, uuid)]

\* mutant: once a row was skipped, every later row is skipped as well
NormalizeRow_StopsAfterSkip(r, idx, uuid) ==
    LET f == RowFieldsOf[r]
    IN  IF uuid <= idx THEN [skip |-> TRUE]
        ELSE IF ~Truthy(f.questionText) THEN [skip |-> TRUE]
        ELSE IF Len(f.deduplicatedOptions) < 2 THEN [skip |-> TRUE]
        ELSE [skip |-> FALSE, q |-> BuildQuestion(f, idx, uuid)]

\* the outcome of the forEach callback for row r at position idx: a skip, or
\* the Question pushed to processedQuestions (uuid is the id it gets)
NormalizeRow(r, idx, uuid) ==
    LET f == RowFieldsOf[r]
    IN  IF ~Truthy(f.questionText) THEN [skip |-> TRUE]
        ELSE IF Len(f.deduplicatedOptions) < 2 THEN [skip |-> TRUE]
        ELSE [skip |-> FALSE, q |-> BuildQuestion(f, idx, uuid)]

-----------------------------------------------------------------------------
IdleColumn ==
    /\ colRow = <<>>
    /\ colTarget = <<>>
    /\ colVal = Undefined
    /\ colPc = "idle"

IdleImport ==
    /\ headers = <<>>
    /\ sourceName = <<>>
    /\ rowCount = 0
    /\ index = 0
    /\ row = <<>>
    /\ processedQuestions = <<>>
    /\ skippedCount = 0
    /\ imported = <<>>
    /\ toast = ""
    /\ uuidCount = 0
    /\ importPc = "idle"

InitColumn ==
    /\ colRow \in ColumnRows
    /\ colTarget \in ColumnTargets
    /\ colVal = Undefined
    /\ colPc = "start"

\* one call getVal(target) on a parsed row
ResolveColumn ==
    /\ colPc = "start"
    /\ colVal' = getVal(colRow, colTarget)
    /\ colPc' = "done"
    /\ UNCHANGED <<colRow, colTarget, practiceVars, dedupVars, importVars, extractVars, ocrVars, storeVars, settingsVars>>

NextColumn == ResolveColumn

\* Papa.parse has delivered results: headers, and rowCount data rows
InitImport ==
    /\ headers \in {sh.headers : sh \in ImportSheets}
    /\ sourceName \in SourceNames
    /\ rowCount \in 0..MaxRows
    /\ headers = <<>> => rowCount = 0
    /\ index = 0
    /\ row = <<>>
    /\ processedQuestions = <<>>
    /\ skippedCount = 0
    /\ imported = <<>>
    /\ toast = ""
    /\ uuidCount = 0
    /\ importPc = "complete"

\* complete callback, header validation: without a header that mentions
\* "question" the import ends with the Invalid Format toast
ValidateHeaders ==
    /\ importPc = "complete"
    /\ LET hasQuestion ==
               \E i \in 1..Len(headers) : includes(toLowerCase(headers[i]), s_question)
       IN  IF ~hasQuestion /\ Len(headers) > 0
           THEN toast' = "Invalid Format" /\ importPc' = "done"
           ELSE toast' = toast /\ importPc' = "rows"
    /\ UNCHANGED <<headers, sourceName, rowCount, index, row, processedQuestions,
                   skippedCount, imported, uuidCount, practiceVars, dedupVars, columnVars, extractVars, ocrVars, storeVars, settingsVars>>

\* results.data.forEach callback for the row r at position index
ProcessRow(r) ==
    /\ importPc = "rows"
    /\ index < rowCount
    /\ row' = r
    /\ index' = index + 1
    /\ LET out == NormalizeRow(r, index, uuidCount + 1)
       IN  IF out.skip
           THEN /\ skippedCount' = skippedCount + 1
                /\ UNCHANGED <<processedQuestions, uuidCount>>
           ELSE /\ processedQuestions' = Append(processedQuestions, out.q)
                /\ uuidCount' = uuidCount + 1
                /\ UNCHANGED skippedCount
    /\ UNCHANGED <<headers, sourceName, rowCount, imported, toast, importPc,
                   practiceVars, dedupVars, columnVars, extractVars, ocrVars, storeVars, settingsVars>>

\* mutant: the empty batch is not told apart
FinishImport_NoEmptyCheck ==
    /\ importPc = "rows"
    /\ index = rowCount
    /\ imported' = imported \o ImportedTopics(processedQuestions, uuidCount)
    /\ uuidCount' = uuidCount + Len(ImportedTopics(processedQuestions, uuidCount))
    /\ toast' = "Import Successful"
    /\ importPc' = "done"
    /\ UNCHANGED <<headers, sourceName, rowCount, index, row, processedQuestions,
                   skippedCount, practiceVars, dedupVars, columnVars, extractVars, ocrVars, storeVars, settingsVars>>

\* after the loop: no question -> No Questions Found; otherwise group by
\* topic, hand every Topic to onImport, report success
FinishImport ==
    /\ importPc = "rows"
    /\ index = rowCount
    /\ IF Len(processedQuestions) = 0
       THEN /\ toast' = "No Questions Found"
            /\ UNCHANGED <<imported, uuidCount>>
       ELSE /\ imported' = imported \o ImportedTopics(processedQuestions, uuidCount)
            /\ uuidCount' = uuidCount + Len(ImportedTopics(processedQuestions, uuidCount))
            /\ toast' = "Import Successful"
    /\ importPc' = "done"
    /\ UNCHANGED <<headers, sourceName, rowCount, index, row, processedQuestions,
                   skippedCount, practiceVars, dedupVars, columnVars, extractVars, ocrVars, storeVars, settingsVars>>

NextImport ==
    \/ ValidateHeaders
    \/ \E r \in SheetRows[headers] : ProcessRow(r)
    \/ FinishImport

-----------------------------------------------------------------------------
(* The LLM-response JSON extractor                                         *)

\* the character ` (U+0060), which a string of this language cannot hold
Backtick == "BACKTICK"

s_fence == <<Backtick, Backtick, Backtick>>
s_json == <<"j", "s", "o", "n">>

\* text t holds the word w at position p (1-based)
HasAt(t, p, w) == p + Len(w) - 1 <= Len(t) /\ SubSeq(t, p, p + Len(w) - 1) = w

\* the first position from p on that holds no white space (\s*, greedy)
SkipSpace(t, p) ==
    IF \E i \in p..Len(t) : ~IsSpace(t[i])
    THEN SetMin({i \in p..Len(t) : ~IsSpace(t[i])})
    ELSE Len(t) + 1

\* t.replace(/^```(?:json)?\s*\n?/m, ''): the first fence that opens a line
\* goes, with a json tag and all white space that follows it
StripOpeningFence(t) ==
    LET starts == {p \in 1..Len(t) : (p = 1 \/ t[p - 1] = "\n") /\ HasAt(t, p, s_fence)}
    IN  IF starts = {} THEN t
        ELSE LET p == SetMin(starts)
                 q == IF HasAt(t, p + 3, s_json) THEN p + 7 ELSE p + 3
             IN  SubSeq(t, 1, p - 1) \o SubSeq(t, SkipSpace(t, q), Len(t))

\* the ends of \s*$ (multiline) for white space that starts at position e: the
\* positions up to the first non-space at which the text or a line ends
FenceTailEnds(t, e) ==
    {j \in e..SkipSpace(t, e) : j = Len(t) + 1 \/ t[j] = "\n"}

\* the position from which /\n?```\s*$/m matches at p, or 0
ClosingFenceAt(t, p) ==
    IF t[p] = "\n" /\ HasAt(t, p + 1, s_fence) /\ FenceTailEnds(t, p + 4) # {} THEN p + 4
    ELSE IF HasAt(t, p, s_fence) /\ FenceTailEnds(t, p + 3) # {} THEN p + 3
    ELSE 0

\* t.replace(/\n?```\s*$/m, ''): the first fence that ends a line goes, with
\* the newline before it and the white space after it
StripClosingFence(t) ==
    LET starts == {p \in 1..Len(t) : ClosingFenceAt(t, p) # 0}
    IN  IF starts = {} THEN t
        ELSE LET p == SetMin(starts)
                 j == SetMax(FenceTailEnds(t, ClosingFenceAt(t, p)))
             IN  SubSeq(t, 1, p - 1) \o SubSeq(t, j, Len(t))

\* jsonStr: the trimmed response without its fences
DefencedText(text) == StripClosingFence(StripOpeningFence(trim(text)))

\* mutant: the first occurrence instead of the last
lastIndexOf_First(t, c) ==
    IF \E i \in 1..Len(t) : t[i] = c
    THEN SetMin({i \in 1..Len(t) : t[i] = c}) - 1
    ELSE -1

\* t.lastIndexOf(c), 0-based, -1 when absent
lastIndexOf(t, c) ==
    IF \E i \in 1..Len(t) : t[i] = c
    THEN SetMax({i \in 1..Len(t) : t[i] = c}) - 1
    ELSE -1

\* t.substring(from, to), 0-based, to exclusive
substring(t, from, to) == SubSeq(t, from + 1, to)

\* t.replace(/,(\s*[\}\]])/g, '$1'): every comma that only white space
\* separates from a closing brace or bracket goes
DropTrailingCommas(t, i) ==
    LET Trails(j) == /\ t[j] = ","
                     /\ SkipSpace(t, j + 1) <= Len(t)
                     /\ t[SkipSpace(t, j + 1)] \in {"}", "]"}
        kept == SelectSeq([j \in 1..Len(t) |-> j], LAMBDA j : j >= i /\ ~Trails(j))
    IN  [k \in 1..Len(kept) |-> t[kept[k]]]

-----------------------------------------------------------------------------
(* JSON values and JSON.parse                                              *)

\* A JavaScript value that JSON can carry: tag is "str", "num", "null",
\* "arr", "obj" or "undef"; str holds the text of a string or the digits of a
\* number; items holds the elements of an array or the members of an object
\* (a member has tag "member", its key in str and its value as only item).
JVal(tag, str, items) == [tag |-> tag, str |-> str, items |-> items]
JStr(str) == JVal("str", str, <<>>)
JNum(digits) == JVal("num", digits, <<>>)
JNull == JVal("null", <<>>, <<>>)
JUndef == JVal("undef", <<>>, <<>>)
JArr(items) == JVal("arr", <<>>, items)
JObj(members) == JVal("obj", <<>>, members)
JMember(key, v) == JVal("member", key, <<v>>)

\* obj[key]: the value of the member, undefined when there is none or obj is
\* no object
JGet(obj, key) ==
    IF obj.tag = "obj" /\ \E i \in 1..Len(obj.items) : obj.items[i].str = key
    THEN obj.items[CHOOSE i \in 1..Len(obj.items) : obj.items[i].str = key].items[1]
    ELSE JUndef

\* the members of an object literal; a member whose value is undefined is
\* left out when the object is serialised
JObjOf(members) == JObj(SelectSeq(members, LAMBDA m : m.items[1].tag # "undef"))

\* JS truthiness of a value
JTruthy(v) ==
    CASE v.tag \in {"undef", "null"} -> FALSE
      [] v.tag = "str" -> v.str # <<>>
      [] v.tag = "num" -> v.str # <<"0">>
      [] OTHER -> TRUE

\* String(v) for strings, numbers and null
JString(v) ==
    CASE v.tag = "null" -> <<"n", "u", "l", "l">>
      [] v.tag = "undef" -> Undefined
      [] OTHER -> v.str

IsJsonSpace(c) == c \in {" ", "\t", "\n", "\r"}

SkipJsonSpace(t, p) ==
    IF \E i \in p..Len(t) : ~IsJsonSpace(t[i])
    THEN SetMin({i \in p..Len(t) : ~IsJsonSpace(t[i])})
    ELSE Len(t) + 1

ParseFail == [ok |-> FALSE, v |-> JUndef, next |-> 0]
Parsed(v, next) == [ok |-> TRUE, v |-> v, next |-> next]

\* a string literal at position p (no escapes, no control characters)
ParseString(t, p) ==
    IF ~(\E j \in (p + 1)..Len(t) : t[j] = "\"") THEN ParseFail
    ELSE LET j == SetMin({k \in (p + 1)..Len(t) : t[k] = "\""})
             body == SubSeq(t, p + 1, j - 1)
         IN  IF \E k \in 1..Len(body) : body[k] \in {"\\", "\n", "\t", "\r"}
             THEN ParseFail
             ELSE Parsed(JStr(body), j + 1)

\* a non-negative integer literal at position p
ParseNumber(t, p) ==
    LET IsDigit(c) == \E d \in 1..10 : DigitChars[d] = c
        end == IF \E i \in p..Len(t) : ~IsDigit(t[i])
               THEN SetMin({i \in p..Len(t) : ~IsDigit(t[i])})
               ELSE Len(t) + 1
    IN  IF end = p \/ (end - p > 1 /\ t[p] = "0") THEN ParseFail
        ELSE Parsed(JNum(SubSeq(t, p, end - 1)), end)

RECURSIVE ParseValue(_, _), ParseElements(_, _, _), ParseMembers(_, _, _)

\* a value starting at or after position p
ParseValue(t, p) ==
    LET i == SkipJsonSpace(t, p)
    IN  IF i > Len(t) THEN ParseFail
        ELSE CASE t[i] = "{" ->
                     IF SkipJsonSpace(t, i + 1) <= Len(t) /\ t[SkipJsonSpace(t, i + 1)] = "}"
                     THEN Parsed(JObj(<<>>), SkipJsonSpace(t, i + 1) + 1)
                     ELSE ParseMembers(t, i + 1, <<>>)
               [] t[i] = "[" ->
                     IF SkipJsonSpace(t, i + 1) <= Len(t) /\ t[SkipJsonSpace(t, i + 1)] = "]"
                     THEN Parsed(JArr(<<>>), SkipJsonSpace(t, i + 1) + 1)
                     ELSE ParseElements(t, i + 1, <<>>)
               [] t[i] = "\"" -> ParseString(t, i)
               [] HasAt(t, i, <<"n", "u", "l", "l">>) -> Parsed(JNull, i + 4)
               [] OTHER -> ParseNumber(t, i)

\* the elements of an array from position p on, acc holding those read
ParseElements(t, p, acc) ==
    LET r == ParseValue(t, p)
        i == SkipJsonSpace(t, r.next)
    IN  IF ~r.ok \/ i > Len(t) THEN ParseFail
        ELSE IF t[i] = "," THEN ParseElements(t, i + 1, Append(acc, r.v))
        ELSE IF t[i] = "]" THEN Parsed(JArr(Append(acc, r.v)), i + 1)
        ELSE ParseFail

\* the members of an object from position p on; a repeated key keeps its
\* place and takes the later value
ParseMembers(t, p, acc) ==
    LET k == SkipJsonSpace(t, p)
        key == IF k <= Len(t) /\ t[k] = "\"" THEN ParseString(t, k) ELSE ParseFail
        c == SkipJsonSpace(t, key.next)
        r == IF key.ok /\ c <= Len(t) /\ t[c] = ":" THEN ParseValue(t, c + 1) ELSE ParseFail
        i == SkipJsonSpace(t, r.next)
        at == {n \in 1..Len(acc) : acc[n].str = key.v.str}
        acc2 == IF at = {} THEN Append(acc, JMember(key.v.str, r.v))
                ELSE [acc EXCEPT ![CHOOSE n \in at : TRUE] = JMember(key.v.str, r.v)]
    IN  IF ~r.ok \/ i > Len(t) THEN ParseFail
        ELSE IF t[i] = "," THEN ParseMembers(t, i + 1, acc2)
        ELSE IF t[i] = "}" THEN Parsed(JObj(acc2), i + 1)
        ELSE ParseFail

\* JSON.parse(t): the value, or a SyntaxError
JSONparse(t) ==
    LET r == ParseValue(t, 1)
    IN  IF r.ok /\ SkipJsonSpace(t, r.next) > Len(t) THEN r ELSE ParseFail

-----------------------------------------------------------------------------
(* POST /api/extract-mcq and the OCR page                                  *)

k_questions == <<"q", "u", "e", "s", "t", "i", "o", "n", "s">>
k_pageNo == <<"p", "a", "g", "e", "N", "o">>
k_options == <<"o", "p", "t", "i", "o", "n", "s">>
k_no == <<"n", "o">>
k_question == <<"q", "u", "e", "s", "t", "i", "o", "n">>
k_correctAnswer == <<"c", "o", "r", "r", "e", "c", "t", "A", "n", "s", "w", "e", "r">>
k_explanation == <<"e", "x", "p", "l", "a", "n", "a", "t", "i", "o", "n">>
k_topic == <<"t", "o", "p", "i", "c">>
k_id == <<"i", "d">>
s_A == <<"A">>

\* mutant: the shape of result.questions is not checked
ExtractJson_NoShapeCheck(text) ==
    LET jsonStr == DefencedText(text)
        firstBrace == indexOf(jsonStr, "{")
        lastBrace == lastIndexOf(jsonStr, "}")
        jsonStr2 == substring(jsonStr, firstBrace, lastBrace + 1)
        parsed == JSONparse(DropTrailingCommas(jsonStr2, 1))
        questions == JGet(parsed.v, k_questions)
    IN  IF firstBrace = -1 \/ lastBrace = -1 \/ firstBrace >= lastBrace
        THEN [outcome |-> "NoJson", slice |-> <<>>, result |-> JUndef]
        ELSE IF ~parsed.ok
        THEN [outcome |-> "ParseError", slice |-> jsonStr2, result |-> JUndef]
        ELSE IF questions.tag = "arr" /\ Len(questions.items) = 0
        THEN [outcome |-> "EmptyQuestions", slice |-> jsonStr2, result |-> parsed.v]
        ELSE [outcome |-> "Ok", slice |-> jsonStr2, result |-> parsed.v]

\* what the JSON extraction of a handler comes to for the LLM text: the
\* outcome, the slice handed to the comma repair and JSON.parse, and the
\* parsed result
ExtractJson(text) ==
    LET jsonStr == DefencedText(text)
        firstBrace == indexOf(jsonStr, "{")
        lastBrace == lastIndexOf(jsonStr, "}")
        jsonStr2 == substring(jsonStr, firstBrace, lastBrace + 1)
        parsed == JSONparse(DropTrailingCommas(jsonStr2, 1))
        questions == JGet(parsed.v, k_questions)
    IN  IF firstBrace = -1 \/ lastBrace = -1 \/ firstBrace >= lastBrace
        THEN [outcome |-> "NoJson", slice |-> <<>>, result |-> JUndef]
        ELSE IF ~parsed.ok
        THEN [outcome |-> "ParseError", slice |-> jsonStr2, result |-> JUndef]
        ELSE IF ~JTruthy(questions) \/ questions.tag # "arr"
        THEN [outcome |-> "InvalidFormat", slice |-> jsonStr2, result |-> parsed.v]
        ELSE IF Len(questions.items) = 0
        THEN [outcome |-> "EmptyQuestions", slice |-> jsonStr2, result |-> parsed.v]
        ELSE [outcome |-> "Ok", slice |-> jsonStr2, result |-> parsed.v]

\* a || b on JavaScript values
JOr(a, b) == IF JTruthy(a) THEN a ELSE b

\* String(v || dflt).trim()
TrimmedString(v, dflt) == trim(JString(JOr(v, JStr(dflt))))

\* validateAndCleanQuestions reads q.options of null, or calls .map on a
\* value that is no array: a TypeError
CleaningThrows(q) ==
    \/ q.tag = "null"
    \/ JTruthy(JGet(q, k_options)) /\ JGet(q, k_options).tag # "arr"

\* one element of validateAndCleanQuestions(questions, pageNo)
CleanQuestion(q, pageNo) ==
    LET given == JOr(JGet(q, k_options), JArr(<<>>)).items
        options == OcrCleanOptions([i \in 1..Len(given) |-> JString(given[i])])
    IN  JObjOf(<< JMember(k_id, JOr(JGet(q, k_id), JStr(<<>>))),
                  JMember(k_no, JStr(TrimmedString(JGet(q, k_no), <<>>))),
                  JMember(k_question, JStr(TrimmedString(JGet(q, k_question), <<>>))),
                  JMember(k_options, JArr([i \in 1..Len(options) |-> JStr(options[i])])),
                  JMember(k_correctAnswer,
                          JStr(toUpperCase(TrimmedString(JGet(q, k_correctAnswer), s_A)))),
                  JMember(k_explanation, JStr(TrimmedString(JGet(q, k_explanation), <<>>))),
                  JMember(k_topic, JOr(JGet(q, k_topic), JStr(<<>>))),
                  JMember(k_pageNo, JStr(pageNo)) >>)

validateAndCleanQuestions(questions, pageNo) ==
    [i \in 1..Len(questions) |-> CleanQuestion(questions[i], pageNo)]

\* a call res.status(status).json(body); error names the message of an error
\* body
Response(status, error, body) == [status |-> status, error |-> error, body |-> body]

NoResponse == Response(0, "", JUndef)

\* the error response of a handler for a failed extraction
ExtractionError(outcome) ==
    CASE outcome = "NoJson" -> Response(400, "[DEBUG] Gemini returned no JSON", JNull)
      [] outcome = "ParseError" -> Response(400, "[DEBUG] JSON Parse Error", JNull)
      [] outcome = "InvalidFormat" -> Response(400, "[DEBUG] Invalid format", JNull)
      [] outcome = "EmptyQuestions" -> Response(400, "[DEBUG] Empty questions", JNull)

\* routes.ts: the response of POST /api/extract-mcq once the LLM has answered
RoutesResponse(ex, topic) ==
    IF ex.outcome # "Ok" THEN ExtractionError(ex.outcome)
    ELSE LET questions == JGet(ex.result, k_questions).items
             pageNo == TrimmedString(JGet(ex.result, k_pageNo), <<>>)
         IN  IF \E i \in 1..Len(questions) : CleaningThrows(questions[i])
             THEN Response(500, "TypeError", JNull)
             ELSE Response(200, "",
                      JObjOf(<< JMember(k_questions,
                                        JArr(validateAndCleanQuestions(questions, pageNo))),
                                JMember(k_topic, topic) >>))

k_userId == <<"u", "s", "e", "r", "I", "d">>
k_openaiKey == <<"o", "p", "e", "n", "a", "i", "K", "e", "y">>
k_geminiKey == <<"g", "e", "m", "i", "n", "i", "K", "e", "y">>
k_aiProvider == <<"a", "i", "P", "r", "o", "v", "i", "d", "e", "r">>
s_default == <<"d", "e", "f", "a", "u", "l", "t">>
s_gemini == <<"g", "e", "m", "i", "n", "i">>

\* a request: its path and its method
Request(path, method) == [path |-> path, method |-> method]
ExtractRequest == Request("/api/extract-mcq", "POST")

\* api-handler.ts: the body of the keys endpoint
EmptyKeys ==
    JObjOf(<< JMember(k_id, JStr(<<>>)), JMember(k_userId, JStr(s_default)),
              JMember(k_openaiKey, JStr(<<>>)), JMember(k_geminiKey, JStr(<<>>)),
              JMember(k_aiProvider, JStr(s_gemini)) >>)

\* api-handler.ts: the res.status(..).json(..) calls of handleApiRoute for
\* the request, in order; ex is the extraction made of the LLM reply. Only
\* the error branches of the extraction return; every other path of the
\* function runs on to its last statement.
ApiHandlerWrites(req, ex) ==
    IF req = ExtractRequest /\ ex.outcome # "Ok" THEN <<ExtractionError(ex.outcome)>>
    ELSE (IF req = ExtractRequest THEN << Response(200, "", ex.result) >> ELSE <<>>)
         \o (IF req.path = "/api/topics" THEN << Response(200, "", JArr(<<>>)) >> ELSE <<>>)
         \o (IF req.path = "/api/keys" THEN << Response(200, "", EmptyKeys) >> ELSE <<>>)
         \o << Response(404, "Not found", JNull) >>

\* the LLM replies given to the handlers
ResponseTexts == {
    \* the reply the prompt asks for: {"pageNo":"5","questions":[{"no":"1","question":"Q","options":["a","b","c","d"],"correctAnswer":"b","explanation":"e"}]}
    <<"{", "\"", "p", "a", "g", "e", "N", "o", "\"", ":", "\"", "5", "\"", ",", "\"", "q", "u",
      "e", "s", "t", "i", "o", "n", "s", "\"", ":", "[", "{", "\"", "n", "o", "\"", ":", "\"",
      "1", "\"", ",", "\"", "q", "u", "e", "s", "t", "i", "o", "n", "\"", ":", "\"", "Q", "\"",
      ",", "\"", "o", "p", "t", "i", "o", "n", "s", "\"", ":", "[", "\"", "a", "\"", ",", "\"",
      "b", "\"", ",", "\"", "c", "\"", ",", "\"", "d", "\"", "]", ",", "\"", "c", "o", "r",
      "r", "e", "c", "t", "A", "n", "s", "w", "e", "r", "\"", ":", "\"", "b", "\"", ",", "\"",
      "e", "x", "p", "l", "a", "n", "a", "t", "i", "o", "n", "\"", ":", "\"", "e", "\"", "}",
      "]", "}">>,
    \* fenced and tagged: ```json\n{"pageNo":"5","questions":[{"no":"1","question":"Q","options":["a","b","c","d"],"correctAnswer":"b","explanation":"e"}]}\n```
    <<Backtick, Backtick, Backtick, "j", "s", "o", "n", "\n", "{", "\"", "p", "a", "g", "e", "N", "o", "\"",
      ":", "\"", "5", "\"", ",", "\"", "q", "u", "e", "s", "t", "i", "o", "n", "s", "\"", ":",
      "[", "{", "\"", "n", "o", "\"", ":", "\"", "1", "\"", ",", "\"", "q", "u", "e", "s", "t",
      "i", "o", "n", "\"", ":", "\"", "Q", "\"", ",", "\"", "o", "p", "t", "i", "o", "n", "s",
      "\"", ":", "[", "\"", "a", "\"", ",", "\"", "b", "\"", ",", "\"", "c", "\"", ",", "\"",
      "d", "\"", "]", ",", "\"", "c", "o", "r", "r", "e", "c", "t", "A", "n", "s", "w", "e",
      "r", "\"", ":", "\"", "b", "\"", ",", "\"", "e", "x", "p", "l", "a", "n", "a", "t", "i",
      "o", "n", "\"", ":", "\"", "e", "\"", "}", "]", "}", "\n", Backtick, Backtick, Backtick>>,
    \* fenced, white space after the closing fence:  ```\n{"pageNo":"3","questions":[{"question":"Q","options":["a","b"]}]}\n``` \n
    <<" ", Backtick, Backtick, Backtick, "\n", "{", "\"", "p", "a", "g", "e", "N", "o", "\"", ":", "\"", "3",
      "\"", ",", "\"", "q", "u", "e", "s", "t", "i", "o", "n", "s", "\"", ":", "[", "{", "\"",
      "q", "u", "e", "s", "t", "i", "o", "n", "\"", ":", "\"", "Q", "\"", ",", "\"", "o", "p",
      "t", "i", "o", "n", "s", "\"", ":", "[", "\"", "a", "\"", ",", "\"", "b", "\"", "]", "}",
      "]", "}", "\n", Backtick, Backtick, Backtick, " ", "\n">>,
    \* prose around the object: Here: {"pageNo":"3","questions":[{"question":"Q","options":["a","b"]}]} Done.
    <<"H", "e", "r", "e", ":", " ", "{", "\"", "p", "a", "g", "e", "N", "o", "\"", ":", "\"",
      "3", "\"", ",", "\"", "q", "u", "e", "s", "t", "i", "o", "n", "s", "\"", ":", "[", "{",
      "\"", "q", "u", "e", "s", "t", "i", "o", "n", "\"", ":", "\"", "Q", "\"", ",", "\"", "o",
      "p", "t", "i", "o", "n", "s", "\"", ":", "[", "\"", "a", "\"", ",", "\"", "b", "\"", "]",
      "}", "]", "}", " ", "D", "o", "n", "e", ".">>,
    \* prose line, fence, prose line: Sure\n```json\n{"pageNo":"3","questions":[{"question":"Q","options":["a","b"]}]}\n```\nBye
    <<"S", "u", "r", "e", "\n", Backtick, Backtick, Backtick, "j", "s", "o", "n", "\n", "{", "\"", "p", "a",
      "g", "e", "N", "o", "\"", ":", "\"", "3", "\"", ",", "\"", "q", "u", "e", "s", "t", "i",
      "o", "n", "s", "\"", ":", "[", "{", "\"", "q", "u", "e", "s", "t", "i", "o", "n", "\"",
      ":", "\"", "Q", "\"", ",", "\"", "o", "p", "t", "i", "o", "n", "s", "\"", ":", "[", "\"",
      "a", "\"", ",", "\"", "b", "\"", "]", "}", "]", "}", "\n", Backtick, Backtick, Backtick, "\n", "B", "y",
      "e">>,
    \* no brace at all: No questions.
    <<"N", "o", " ", "q", "u", "e", "s", "t", "i", "o", "n", "s", ".">>,
    \* an opening brace only: {"questions":[
    <<"{", "\"", "q", "u", "e", "s", "t", "i", "o", "n", "s", "\"", ":", "[">>,
    \* a closing brace only: ]}
    <<"]", "}">>,
    \* the last closing brace before the first opening brace: } {
    <<"}", " ", "{">>,
    \* a single brace: {
    <<"{">>,
    \* an empty fenced block: ```json\n```
    <<Backtick, Backtick, Backtick, "j", "s", "o", "n", "\n", Backtick, Backtick, Backtick>>,
    \* the empty object: {}
    <<"{", "}">>,
    \* trailing commas: {"pageNo":"2","questions":[{"options":["a","b",],"correctAnswer":"a",},],}
    <<"{", "\"", "p", "a", "g", "e", "N", "o", "\"", ":", "\"", "2", "\"", ",", "\"", "q", "u",
      "e", "s", "t", "i", "o", "n", "s", "\"", ":", "[", "{", "\"", "o", "p", "t", "i", "o",
      "n", "s", "\"", ":", "[", "\"", "a", "\"", ",", "\"", "b", "\"", ",", "]", ",", "\"",
      "c", "o", "r", "r", "e", "c", "t", "A", "n", "s", "w", "e", "r", "\"", ":", "\"", "a",
      "\"", ",", "}", ",", "]", ",", "}">>,
    \* the reply the prompt asks for when the page holds no question: {"pageNo": "", "questions": []}
    <<"{", "\"", "p", "a", "g", "e", "N", "o", "\"", ":", " ", "\"", "\"", ",", " ", "\"", "q",
      "u", "e", "s", "t", "i", "o", "n", "s", "\"", ":", " ", "[", "]", "}">>,
    \* no question, page number given: {"pageNo":"4","questions":[]}
    <<"{", "\"", "p", "a", "g", "e", "N", "o", "\"", ":", "\"", "4", "\"", ",", "\"", "q", "u",
      "e", "s", "t", "i", "o", "n", "s", "\"", ":", "[", "]", "}">>,
    \* questions is a string: {"questions":"none"}
    <<"{", "\"", "q", "u", "e", "s", "t", "i", "o", "n", "s", "\"", ":", "\"", "n", "o", "n",
      "e", "\"", "}">>,
    \* questions is an object: {"questions":{}}
    <<"{", "\"", "q", "u", "e", "s", "t", "i", "o", "n", "s", "\"", ":", "{", "}", "}">>,
    \* questions is null: {"questions":null}
    <<"{", "\"", "q", "u", "e", "s", "t", "i", "o", "n", "s", "\"", ":", "n", "u", "l", "l",
      "}">>,
    \* no questions field: {"pageNo":"1"}
    <<"{", "\"", "p", "a", "g", "e", "N", "o", "\"", ":", "\"", "1", "\"", "}">>,
    \* keys without quotes: {questions:[]}
    <<"{", "q", "u", "e", "s", "t", "i", "o", "n", "s", ":", "[", "]", "}">>,
    \* two objects: {"a":1} {"b":2}
    <<"{", "\"", "a", "\"", ":", "1", "}", " ", "{", "\"", "b", "\"", ":", "2", "}">>,
    \* no options field, page number with white space: {"pageNo":" 7 ","questions":[{"question":"Q"}]}
    <<"{", "\"", "p", "a", "g", "e", "N", "o", "\"", ":", "\"", " ", "7", " ", "\"", ",", "\"",
      "q", "u", "e", "s", "t", "i", "o", "n", "s", "\"", ":", "[", "{", "\"", "q", "u", "e",
      "s", "t", "i", "o", "n", "\"", ":", "\"", "Q", "\"", "}", "]", "}">>,
    \* an empty option list: {"pageNo":"7","questions":[{"question":"Q","options":[]}]}
    <<"{", "\"", "p", "a", "g", "e", "N", "o", "\"", ":", "\"", "7", "\"", ",", "\"", "q", "u",
      "e", "s", "t", "i", "o", "n", "s", "\"", ":", "[", "{", "\"", "q", "u", "e", "s", "t",
      "i", "o", "n", "\"", ":", "\"", "Q", "\"", ",", "\"", "o", "p", "t", "i", "o", "n", "s",
      "\"", ":", "[", "]", "}", "]", "}">>,
    \* one option: {"pageNo":"7","questions":[{"options":["a"]}]}
    <<"{", "\"", "p", "a", "g", "e", "N", "o", "\"", ":", "\"", "7", "\"", ",", "\"", "q", "u",
      "e", "s", "t", "i", "o", "n", "s", "\"", ":", "[", "{", "\"", "o", "p", "t", "i", "o",
      "n", "s", "\"", ":", "[", "\"", "a", "\"", "]", "}", "]", "}">>,
    \* two options equal up to case: {"pageNo":"7","questions":[{"options":["a","A"]}]}
    <<"{", "\"", "p", "a", "g", "e", "N", "o", "\"", ":", "\"", "7", "\"", ",", "\"", "q", "u",
      "e", "s", "t", "i", "o", "n", "s", "\"", ":", "[", "{", "\"", "o", "p", "t", "i", "o",
      "n", "s", "\"", ":", "[", "\"", "a", "\"", ",", "\"", "A", "\"", "]", "}", "]", "}">>,
    \* three options, equal after trimming: {"pageNo":"7","questions":[{"options":["a "," a","b"]}]}
    <<"{", "\"", "p", "a", "g", "e", "N", "o", "\"", ":", "\"", "7", "\"", ",", "\"", "q", "u",
      "e", "s", "t", "i", "o", "n", "s", "\"", ":", "[", "{", "\"", "o", "p", "t", "i", "o",
      "n", "s", "\"", ":", "[", "\"", "a", " ", "\"", ",", "\"", " ", "a", "\"", ",", "\"",
      "b", "\"", "]", "}", "]", "}">>,
    \* five options: {"pageNo":"7","questions":[{"options":["a","b","c","d","e"]}]}
    <<"{", "\"", "p", "a", "g", "e", "N", "o", "\"", ":", "\"", "7", "\"", ",", "\"", "q", "u",
      "e", "s", "t", "i", "o", "n", "s", "\"", ":", "[", "{", "\"", "o", "p", "t", "i", "o",
      "n", "s", "\"", ":", "[", "\"", "a", "\"", ",", "\"", "b", "\"", ",", "\"", "c", "\"",
      ",", "\"", "d", "\"", ",", "\"", "e", "\"", "]", "}", "]", "}">>,
    \* five options, two equal up to case: {"pageNo":"7","questions":[{"options":["a","A","b","c","d"]}]}
    <<"{", "\"", "p", "a", "g", "e", "N", "o", "\"", ":", "\"", "7", "\"", ",", "\"", "q", "u",
      "e", "s", "t", "i", "o", "n", "s", "\"", ":", "[", "{", "\"", "o", "p", "t", "i", "o",
      "n", "s", "\"", ":", "[", "\"", "a", "\"", ",", "\"", "A", "\"", ",", "\"", "b", "\"",
      ",", "\"", "c", "\"", ",", "\"", "d", "\"", "]", "}", "]", "}">>,
    \* numbers as options and page number: {"pageNo":12,"questions":[{"no":1,"options":[3,4,5,6],"correctAnswer":4}]}
    <<"{", "\"", "p", "a", "g", "e", "N", "o", "\"", ":", "1", "2", ",", "\"", "q", "u", "e",
      "s", "t", "i", "o", "n", "s", "\"", ":", "[", "{", "\"", "n", "o", "\"", ":", "1", ",",
      "\"", "o", "p", "t", "i", "o", "n", "s", "\"", ":", "[", "3", ",", "4", ",", "5", ",",
      "6", "]", ",", "\"", "c", "o", "r", "r", "e", "c", "t", "A", "n", "s", "w", "e", "r",
      "\"", ":", "4", "}", "]", "}">>,
    \* no page number: {"questions":[{"options":["a","b","c","d"],"correctAnswer":"c"}]}
    <<"{", "\"", "q", "u", "e", "s", "t", "i", "o", "n", "s", "\"", ":", "[", "{", "\"", "o",
      "p", "t", "i", "o", "n", "s", "\"", ":", "[", "\"", "a", "\"", ",", "\"", "b", "\"", ",",
      "\"", "c", "\"", ",", "\"", "d", "\"", "]", ",", "\"", "c", "o", "r", "r", "e", "c", "t",
      "A", "n", "s", "w", "e", "r", "\"", ":", "\"", "c", "\"", "}", "]", "}">>,
    \* a page number per question: {"pageNo":"8","questions":[{"options":["a","b","c","d"],"pageNo":"9"}]}
    <<"{", "\"", "p", "a", "g", "e", "N", "o", "\"", ":", "\"", "8", "\"", ",", "\"", "q", "u",
      "e", "s", "t", "i", "o", "n", "s", "\"", ":", "[", "{", "\"", "o", "p", "t", "i", "o",
      "n", "s", "\"", ":", "[", "\"", "a", "\"", ",", "\"", "b", "\"", ",", "\"", "c", "\"",
      ",", "\"", "d", "\"", "]", ",", "\"", "p", "a", "g", "e", "N", "o", "\"", ":", "\"", "9",
      "\"", "}", "]", "}">>,
    \* two questions: {"pageNo":"6","questions":[{"no":"1","options":["a","b","c","d"]},{"no":"2","options":["b","B"]}]}
    <<"{", "\"", "p", "a", "g", "e", "N", "o", "\"", ":", "\"", "6", "\"", ",", "\"", "q", "u",
      "e", "s", "t", "i", "o", "n", "s", "\"", ":", "[", "{", "\"", "n", "o", "\"", ":", "\"",
      "1", "\"", ",", "\"", "o", "p", "t", "i", "o", "n", "s", "\"", ":", "[", "\"", "a", "\"",
      ",", "\"", "b", "\"", ",", "\"", "c", "\"", ",", "\"", "d", "\"", "]", "}", ",", "{",
      "\"", "n", "o", "\"", ":", "\"", "2", "\"", ",", "\"", "o", "p", "t", "i", "o", "n", "s",
      "\"", ":", "[", "\"", "b", "\"", ",", "\"", "B", "\"", "]", "}", "]", "}">>,
    \* options is a string: {"pageNo":"7","questions":[{"options":"ab"}]}
    <<"{", "\"", "p", "a", "g", "e", "N", "o", "\"", ":", "\"", "7", "\"", ",", "\"", "q", "u",
      "e", "s", "t", "i", "o", "n", "s", "\"", ":", "[", "{", "\"", "o", "p", "t", "i", "o",
      "n", "s", "\"", ":", "\"", "a", "b", "\"", "}", "]", "}">> }

\* the servers that serve /api/extract-mcq: the Express routes (routes.ts)
\* and the worker around handleApiRoute (worker.ts, worker-build.ts)
EntryPoints == {"routes", "worker"}

\* ExtractJson tabulated over the replies
ExtractionOf == [text \in ResponseTexts |-> ExtractJson(text)]

IdleExtract ==
    /\ request = Request("", "")
    /\ responseText = <<>>
    /\ entryPoint = "none"
    /\ extraction = [outcome |-> "none", slice |-> <<>>, result |-> JUndef]
    /\ written = <<>>
    /\ delivered = NoResponse
    /\ allQuestions = <<>>
    /\ ocrToast = <<>>
    /\ extractPc = "idle"

\* the requests the worker passes to handleApiRoute besides the OCR page's
WorkerRequests ==
    { Request(p, m) : p \in {"/api/extract-mcq", "/api/topics", "/api/keys", "/api/other"},
                      m \in {"GET", "POST"} } \ {ExtractRequest}

NoExtraction == [outcome |-> "none", slice |-> <<>>, result |-> JUndef]

\* a request has reached a server: the OCR page has posted an image and the
\* LLM has answered, or the worker has received another API request
InitExtract ==
    /\ \/ /\ request = ExtractRequest
          /\ responseText \in ResponseTexts
          /\ entryPoint \in EntryPoints
       \/ /\ request \in WorkerRequests
          /\ responseText = <<>>
          /\ entryPoint = "worker"
    /\ extraction = NoExtraction
    /\ written = <<>>
    /\ delivered = NoResponse
    /\ allQuestions = <<>>
    /\ ocrToast = <<>>
    /\ extractPc = "answered"

\* routes.ts: the rest of the POST /api/extract-mcq handler
ExtractMcq ==
    /\ extractPc = "answered"
    /\ entryPoint = "routes"
    /\ extraction' = ExtractionOf[responseText]
    /\ written' = <<RoutesResponse(extraction', JStr(<<>>))>>
    /\ delivered' = written'[1]
    /\ extractPc' = "responded"
    /\ UNCHANGED <<request, responseText, entryPoint, allQuestions, ocrToast,
                   practiceVars, dedupVars, columnVars, importVars, ocrVars, storeVars, settingsVars>>

\* worker.ts / worker-build.ts: the rest of handleApiRoute, called with a
\* mock response whose status() and json() overwrite statusCode and
\* responseBody; the Response is built from them after the handler returns
HandleApiRoute ==
    /\ extractPc = "answered"
    /\ entryPoint = "worker"
    /\ extraction' = IF request = ExtractRequest THEN ExtractionOf[responseText]
                                                 ELSE NoExtraction
    /\ written' = ApiHandlerWrites(request, extraction')
    /\ delivered' = written'[Len(written')]
    /\ extractPc' = "responded"
    /\ UNCHANGED <<request, responseText, entryPoint, allQuestions, ocrToast,
                   practiceVars, dedupVars, columnVars, importVars, ocrVars, storeVars, settingsVars>>

\* ocr.tsx: (q.options || []).slice(0, 4)
ClientOptions(q) ==
    LET given == JOr(JGet(q, k_options), JArr(<<>>))
    IN  IF given.tag = "arr"
        THEN JArr(SubSeq(given.items, 1, IF Len(given.items) < 4 THEN Len(given.items) ELSE 4))
        ELSE JStr(SubSeq(given.str, 1, IF Len(given.str) < 4 THEN Len(given.str) ELSE 4))

\* ocr.tsx: the Question made of one element of result.questions
ClientQuestion(q, uuid) ==
    JObjOf(<< JMember(k_id, JNum(NumToString(uuid))),
              JMember(k_no, JOr(JGet(q, k_no), JStr(<<>>))),
              JMember(k_question, JGet(q, k_question)),
              JMember(k_options, ClientOptions(q)),
              JMember(k_correctAnswer, JGet(q, k_correctAnswer)),
              JMember(k_explanation, JGet(q, k_explanation)),
              JMember(k_topic, JStr(<<>>)),
              JMember(k_pageNo, JOr(JGet(q, k_pageNo), JStr(<<>>))) >>)

\* ocr.tsx: response.ok
ResponseOk(r) == r.status >= 200 /\ r.status <= 299

\* ocr.tsx: the Questions pushed to allQuestions for the response r of one
\* image, after `made` calls of uuidv4()
ImageQuestions(r, made) ==
    LET questions == JGet(r.body, k_questions)
    IN  IF ResponseOk(r) /\ JTruthy(questions) /\ questions.tag = "arr"
        THEN [i \in 1..Len(questions.items) |-> ClientQuestion(questions.items[i], made + i)]
        ELSE <<>>

\* ocr.tsx: the titles of the toasts raised for the response r of one image
ImageToast(r) ==
    LET questions == JGet(r.body, k_questions)
    IN  IF ~ResponseOk(r) THEN <<"Extraction Error">>
        ELSE IF JTruthy(questions) /\ questions.tag = "arr" /\ Len(questions.items) = 0
        THEN <<"No MCQs on this page">>
        ELSE <<>>

\* ocr.tsx processImages, from response.json() of the (only) image on
ProcessResponse ==
    /\ extractPc = "responded"
    /\ request = ExtractRequest
    /\ allQuestions' = ImageQuestions(delivered, 0)
    /\ ocrToast' = IF allQuestions' = <<>> THEN ImageToast(delivered) \o <<"No MCQs Found">>
                                           ELSE ImageToast(delivered)
    /\ extractPc' = "done"
    /\ UNCHANGED <<request, responseText, entryPoint, extraction, written, delivered,
                   practiceVars, dedupVars, columnVars, importVars, ocrVars, storeVars, settingsVars>>

NextExtract ==
    \/ ExtractMcq
    \/ HandleApiRoute
    \/ ProcessResponse

-----------------------------------------------------------------------------
(* The OCR page: processImages over several selected files                 *)

\* the largest number of files selected at once
MaxImages == 2

\* a selected file whose FileReader fails (reader.onerror)
UnreadableFile == [kind |-> "unreadable", text |-> <<>>]

\* a selected file whose fetch('/api/extract-mcq') rejects
UnreachableFile == [kind |-> "unreachable", text |-> <<>>]

\* a selected file that the server answers, the LLM replying with text
AnsweredFile(text) == [kind |-> "answered", text |-> text]

SelectableFiles ==
    {AnsweredFile(text) : text \in ResponseTexts} \cup {UnreadableFile, UnreachableFile}

\* what server e writes when the extraction has come to ex
WritesOf(e, ex) ==
    IF e = "routes" THEN <<RoutesResponse(ex, JStr(<<>>))>>
                    ELSE ApiHandlerWrites(ExtractRequest, ex)

\* the response the page receives: what was written last
Received(writes) == writes[Len(writes)]

IdleOcr ==
    /\ ocrServer = "none"
    /\ selectedFiles = <<>>
    /\ fileIndex = 0
    /\ collected = <<>>
    /\ pageToasts = <<>>
    /\ extractedQuestions = <<>>
    /\ showTopicSelection = FALSE
    /\ loading = FALSE
    /\ ocrPc = "idle"

\* the page with its files selected, before the button is pressed
InitOcr ==
    /\ ocrServer \in EntryPoints
    /\ \E n \in 0..MaxImages : selectedFiles \in [1..n -> SelectableFiles]
    /\ fileIndex = 0
    /\ collected = <<>>
    /\ pageToasts = <<>>
    /\ extractedQuestions = <<>>
    /\ showTopicSelection = FALSE
    /\ loading = FALSE
    /\ ocrPc = "selected"

\* processImages up to the for loop
processImages ==
    /\ ocrPc = "selected"
    /\ IF Len(selectedFiles) = 0
       THEN /\ pageToasts' = Append(pageToasts, "Missing Info")
            /\ ocrPc' = "done"
            /\ UNCHANGED <<fileIndex, loading>>
       ELSE /\ loading' = TRUE
            /\ fileIndex' = 1
            /\ ocrPc' = "loop"
            /\ UNCHANGED pageToasts
    /\ UNCHANGED <<ocrServer, selectedFiles, collected, extractedQuestions,
                   showTopicSelection, practiceVars, dedupVars, columnVars,
                   importVars, extractVars, storeVars, settingsVars>>

\* the inner try of processImages once fetch has resolved with response
HandleImageResponse(response) ==
    /\ collected' = collected \o ImageQuestions(response, Len(collected))
    /\ pageToasts' = pageToasts \o ImageToast(response)
    /\ fileIndex' = fileIndex + 1
    /\ UNCHANGED <<loading, ocrPc>>

\* one turn of the for loop: the file is read, posted, and its response
\* handled. A FileReader failure is raised outside the inner try: it leaves
\* the loop for the outer catch and the finally block.
ProcessImage ==
    /\ ocrPc = "loop"
    /\ fileIndex <= Len(selectedFiles)
    /\ LET file == selectedFiles[fileIndex]
       IN  CASE file.kind = "unreadable" ->
                    /\ pageToasts' = Append(pageToasts, "Error")
                    /\ loading' = FALSE
                    /\ ocrPc' = "done"
                    /\ UNCHANGED <<fileIndex, collected>>
             [] file.kind = "unreachable" ->
                    /\ pageToasts' = Append(pageToasts, "Processing Error")
                    /\ fileIndex' = fileIndex + 1
                    /\ UNCHANGED <<collected, loading, ocrPc>>
             [] file.kind = "answered" ->
                    HandleImageResponse(
                        Received(WritesOf(ocrServer, ExtractionOf[file.text])))
    /\ UNCHANGED <<ocrServer, selectedFiles, extractedQuestions, showTopicSelection,
                   practiceVars, dedupVars, columnVars, importVars, extractVars, storeVars, settingsVars>>

\* processImages after the for loop
FinishImages ==
    /\ ocrPc = "loop"
    /\ fileIndex > Len(selectedFiles)
    /\ IF Len(collected) = 0
       THEN /\ pageToasts' = Append(pageToasts, "No MCQs Found")
            /\ UNCHANGED <<extractedQuestions, showTopicSelection>>
       ELSE /\ extractedQuestions' = collected
            /\ showTopicSelection' = TRUE
            /\ UNCHANGED pageToasts
    /\ loading' = FALSE
    /\ ocrPc' = "done"
    /\ UNCHANGED <<ocrServer, selectedFiles, fileIndex, collected,
                   practiceVars, dedupVars, columnVars, importVars, extractVars, storeVars, settingsVars>>

NextOcr ==
    \/ processImages
    \/ ProcessImage
    \/ FinishImages

-----------------------------------------------------------------------------
(* The topic store: useStore (client) and /api/topics (server)             *)

\* the largest number of addTopic calls made, and of questions in one call
MaxCalls == 2
MaxBatch == 2

\* pageNo values of the Questions handed to addTopic: none (tabular import),
\* and a page number as the OCR path read it
PageNos == {Undefined, <<" ", "7">>}

\* the k-th Question of call c, all questions of one call carrying page
NewQuestion(c, k, page, name) ==
    [id |-> 10 * c + k,
     no |-> IF page = Undefined THEN Undefined ELSE NumToString(k),
     question |-> <<"Q">>,
     options |-> << <<"a">>, <<"b">> >>,
     correctAnswer |-> <<"A">>,
     explanation |-> Undefined,
     topic |-> name,
     pageNo |-> page]

\* preserveQuestionFields without the pageNo of the Question
preserveQuestionFields_NoPage(questions) ==
    [i \in 1..Len(questions) |->
        [id |-> questions[i].id,
         no |-> Or(questions[i].no, <<>>),
         question |-> questions[i].question,
         options |-> IF questions[i].options = Undefined THEN <<>> ELSE questions[i].options,
         correctAnswer |-> questions[i].correctAnswer,
         explanation |-> Or(questions[i].explanation, <<>>),
         topic |-> Or(questions[i].topic, <<>>),
         pageNo |-> <<>>]]

\* preserveQuestionFields(questions), the same function in the store and in
\* the route
preserveQuestionFields(questions) ==
    [i \in 1..Len(questions) |->
        [id |-> questions[i].id,
         no |-> Or(questions[i].no, <<>>),
         question |-> questions[i].question,
         options |-> IF questions[i].options = Undefined THEN <<>> ELSE questions[i].options,
         correctAnswer |-> questions[i].correctAnswer,
         explanation |-> Or(questions[i].explanation, <<>>),
         topic |-> Or(questions[i].topic, <<>>),
         pageNo |-> Or(questions[i].pageNo, <<>>)]]

Topic(id, name, questions) == [id |-> id, name |-> name, questions |-> questions]

\* the ids of the topics of a list, and the position of the first topic
\* with an id (prev.find(t => t.id === id)), 0 when there is none
TopicIdsOf(list) == {list[i].id : i \in 1..Len(list)}
FindTopic(list, id) ==
    IF id \in TopicIdsOf(list) THEN SetMin({i \in 1..Len(list) : list[i].id = id}) ELSE 0

\* the setTopics(prev => ...) update of addTopic: merge into the topic with
\* the id of `topic` when prev has one, append `appended` otherwise
MergeInto(prev, topic, appended) ==
    IF FindTopic(prev, topic.id) # 0
    THEN LET mergedQuestions ==
                 prev[FindTopic(prev, topic.id)].questions
                     \o preserveQuestionFields(topic.questions)
         IN  [i \in 1..Len(prev) |->
                 IF prev[i].id = topic.id
                 THEN [prev[i] EXCEPT !.questions = mergedQuestions]
                 ELSE prev[i]]
    ELSE Append(prev, appended)

\* a response of /api/topics as the store sees it
TopicResponse(ok, body) == [ok |-> ok, body |-> body]
NoTopic == Topic(0, <<>>, <<>>)
IdleCall == [pc |-> "idle", topic |-> NoTopic, snapshot |-> NoTopic,
             response |-> TopicResponse(FALSE, NoTopic)]

\* a topic stored before the session: one question, read from page 3
StoredTopic ==
    Topic(200, <<"T">>,
          preserveQuestionFields(<<NewQuestion(0, 1, <<"3">>, <<"T">>)>>))

IdleStore ==
    /\ topics = <<>>
    /\ localData = [set |-> FALSE, topics |-> <<>>]
    /\ dbTopics = <<>>
    /\ calls = <<>>
    /\ accepted = {}

\* the store after loadData: nothing stored yet, or one topic that the
\* server and the browser both hold
InitStore ==
    /\ dbTopics \in {<<>>, <<StoredTopic>>}
    /\ topics = dbTopics
    /\ localData = [set |-> TRUE, topics |-> dbTopics]
    /\ calls = [c \in 1..MaxCalls |-> IdleCall]
    /\ accepted = {[id |-> dbTopics[i].questions[k].id, pageNo |-> dbTopics[i].questions[k].pageNo] :
                      i \in 1..Len(dbTopics), k \in {1}}

\* useStore.addTopic(topic) up to the await of fetch, the calls numbered in
\* the order they are made: the topic is a new one with a fresh id, or
\* carries the id of a topic of the list; the fetch reaches the server or
\* rejects
addTopic(c) ==
    /\ calls[c].pc = "idle"
    /\ \A b \in 1..(c - 1) : calls[b].pc # "idle"
    /\ \E id \in TopicIdsOf(topics) \cup {100 + c}, n \in 1..MaxBatch,
          page \in PageNos, reachable \in BOOLEAN :
          LET name == <<"T">>
              topic == Topic(id, name, [k \in 1..n |-> NewQuestion(c, k, page, name)])
              topicWithPreservedQuestions ==
                  [topic EXCEPT !.questions = preserveQuestionFields(topic.questions)]
          IN  /\ calls' = [calls EXCEPT ![c] =
                             [pc |-> IF reachable THEN "posted" ELSE "answered",
                              topic |-> topicWithPreservedQuestions,
                              snapshot |-> NoTopic,
                              response |-> TopicResponse(FALSE, NoTopic)]]
              /\ accepted' = accepted \cup
                     {[id |-> topic.questions[k].id, pageNo |-> topic.questions[k].pageNo] :
                          k \in 1..n}
    /\ UNCHANGED <<topics, localData, dbTopics,
                   practiceVars, dedupVars, columnVars, importVars, extractVars, ocrVars, settingsVars>>

\* POST /api/topics up to storage.updateTopic: the name is checked, the
\* topic with the id is read, and a topic that does not exist is inserted
\* under an id of the database
PostTopics(c) ==
    /\ calls[c].pc = "posted"
    /\ LET body == calls[c].topic
           preservedQuestions == preserveQuestionFields(body.questions)
           existing == FindTopic(dbTopics, body.id)
           saved == Topic(201 + Len(dbTopics), body.name, preservedQuestions)
       IN  IF ~Truthy(body.name)
           THEN /\ calls' = [calls EXCEPT ![c].pc = "answered",
                                          ![c].response = TopicResponse(FALSE, NoTopic)]
                /\ UNCHANGED dbTopics
           ELSE IF body.id # 0 /\ existing # 0
           THEN /\ calls' = [calls EXCEPT ![c].pc = "read",
                                          ![c].snapshot = dbTopics[existing]]
                /\ UNCHANGED dbTopics
           ELSE /\ dbTopics' = Append(dbTopics, saved)
                /\ calls' = [calls EXCEPT ![c].pc = "answered",
                                          ![c].response = TopicResponse(TRUE, saved)]
    /\ UNCHANGED <<topics, localData, accepted,
                   practiceVars, dedupVars, columnVars, importVars, extractVars, ocrVars, settingsVars>>

\* POST /api/topics from storage.updateTopic on: the questions read before
\* and the new ones are written to the topic
UpdateTopic(c) ==
    /\ calls[c].pc = "read"
    /\ LET id == calls[c].topic.id
           existingQuestions == calls[c].snapshot.questions
           mergedQuestions ==
               existingQuestions \o preserveQuestionFields(calls[c].topic.questions)
           at == FindTopic(dbTopics, id)
       IN  /\ dbTopics' = [dbTopics EXCEPT ![at].questions = mergedQuestions]
           /\ calls' = [calls EXCEPT ![c].pc = "answered",
                                     ![c].response = TopicResponse(TRUE, dbTopics'[at])]
    /\ UNCHANGED <<topics, localData, accepted,
                   practiceVars, dedupVars, columnVars, importVars, extractVars, ocrVars, settingsVars>>

\* useStore.addTopic after the await: the list is updated with the saved
\* topic when the response is ok, with the topic itself otherwise, and
\* written to localStorage
HandleTopicResponse(c) ==
    /\ calls[c].pc = "answered"
    /\ topics' = MergeInto(topics, calls[c].topic,
                           IF calls[c].response.ok THEN calls[c].response.body
                                                   ELSE calls[c].topic)
    /\ localData' = [set |-> TRUE, topics |-> topics']
    /\ calls' = [calls EXCEPT ![c].pc = "done"]
    /\ UNCHANGED <<dbTopics, accepted,
                   practiceVars, dedupVars, columnVars, importVars, extractVars, ocrVars, settingsVars>>

\* useStore loadData on a new mount, no addTopic call being under way: the
\* list of the server when it answers, the list in localStorage otherwise
loadData ==
    /\ \A c \in 1..MaxCalls : calls[c].pc \in {"idle", "done"}
    /\ \E reachable \in BOOLEAN :
          IF reachable
          THEN /\ topics' = dbTopics
               /\ localData' = [set |-> TRUE, topics |-> dbTopics]
          ELSE /\ topics' = IF localData.set THEN localData.topics ELSE <<>>
               /\ UNCHANGED localData
    /\ UNCHANGED <<dbTopics, calls, accepted,
                   practiceVars, dedupVars, columnVars, importVars, extractVars, ocrVars, settingsVars>>

NextStore ==
    \/ \E c \in 1..MaxCalls : addTopic(c)
    \/ \E c \in 1..MaxCalls : PostTopics(c)
    \/ \E c \in 1..MaxCalls : UpdateTopic(c)
    \/ \E c \in 1..MaxCalls : HandleTopicResponse(c)
    \/ loadData

-----------------------------------------------------------------------------
(* The settings page: handleSave, the key savers of useStore, /api/keys    *)

s_openai == <<"o", "p", "e", "n", "a", "i">>
Providers == {s_openai, s_gemini}

\* what the two inputs hold when Save is pressed, and the keys held before
OpenaiInputs == {<<>>, <<" ">>, <<"o", "1">>}
GeminiInputs == {<<>>, <<"g", "1">>}
OpenaiKeysBefore == {<<>>, <<"o", "0">>}
GeminiKeysBefore == {<<>>, <<"g", "0">>}

KeyRecord(openai, gemini, provider) ==
    [openaiKey |-> openai, geminiKey |-> gemini, aiProvider |-> provider]

\* the requests of one handleSave, in the order they are issued
SaveRequests == {"saveOpenaiKey", "saveGeminiKey", "setProvider"}
NoKeyRequest == [pc |-> "none", body |-> KeyRecord(<<>>, <<>>, <<>>), existing |-> FALSE]

\* finalProvider of handleSave
FinalProvider(openaiInput, geminiInput, selectedProvider) ==
    IF trim(geminiInput) # <<>> /\ trim(openaiInput) = <<>> THEN s_gemini
    ELSE IF trim(openaiInput) # <<>> /\ trim(geminiInput) = <<>> THEN s_openai
    ELSE selectedProvider

IdleSettings ==
    /\ keyState = KeyRecord(<<>>, <<>>, s_openai)
    /\ keyInputs = KeyRecord(<<>>, <<>>, s_openai)
    /\ keyRequests = <<>>
    /\ keyRows = <<>>
    /\ settingsToast = ""

\* the page after loadApiKeys: no key record on the server and the initial
\* state of the hook, or one record that the hook has loaded
InitSettings ==
    /\ \E o \in OpenaiKeysBefore, g \in GeminiKeysBefore, p \in Providers :
          /\ keyState = KeyRecord(o, g, p)
          /\ keyRows \in {<<keyState>>} \cup
                 (IF keyState = KeyRecord(<<>>, <<>>, s_openai) THEN {<<>>} ELSE {})
    /\ \E o \in OpenaiInputs, g \in GeminiInputs, p \in Providers :
          keyInputs = KeyRecord(o, g, p)
    /\ keyRequests = [r \in SaveRequests |-> NoKeyRequest]
    /\ settingsToast = ""

\* handleSave: saveOpenaiKey and saveGeminiKey are called, then setProvider
\* unless both inputs are blank; each posts the value it is given together
\* with the other two values of the render the handler belongs to
handleSave ==
    /\ \A r \in SaveRequests : keyRequests[r].pc = "none"
    /\ settingsToast = ""
    /\ LET openaiInput == keyInputs.openaiKey
           geminiInput == keyInputs.geminiKey
           finalProvider == FinalProvider(openaiInput, geminiInput, keyInputs.aiProvider)
           bothBlank == trim(openaiInput) = <<>> /\ trim(geminiInput) = <<>>
           Sent(body) == [pc |-> "sent", body |-> body, existing |-> FALSE]
       IN  /\ keyRequests' =
                 [r \in SaveRequests |->
                    IF r = "saveOpenaiKey"
                    THEN Sent(KeyRecord(openaiInput, keyState.geminiKey, keyState.aiProvider))
                    ELSE IF r = "saveGeminiKey"
                    THEN Sent(KeyRecord(keyState.openaiKey, geminiInput, keyState.aiProvider))
                    ELSE IF bothBlank
                    THEN NoKeyRequest
                    ELSE Sent(KeyRecord(keyState.openaiKey, keyState.geminiKey, finalProvider))]
           /\ keyState' = KeyRecord(openaiInput, geminiInput,
                                    IF bothBlank THEN keyState.aiProvider ELSE finalProvider)
           /\ settingsToast' = IF bothBlank THEN "Error" ELSE "Settings Saved"
    /\ UNCHANGED <<keyInputs, keyRows,
                   practiceVars, dedupVars, columnVars, importVars, extractVars, ocrVars, storeVars>>

\* POST /api/keys up to the select of saveApiKeys: whether a record exists
GetApiKeys(r) ==
    /\ keyRequests[r].pc = "sent"
    /\ keyRequests' = [keyRequests EXCEPT ![r].pc = "selected",
                                          ![r].existing = (Len(keyRows) > 0)]
    /\ UNCHANGED <<keyState, keyInputs, keyRows, settingsToast,
                   practiceVars, dedupVars, columnVars, importVars, extractVars, ocrVars, storeVars>>

\* POST /api/keys from the write of saveApiKeys on: every field of the
\* existing record is set from the body, or a record is inserted
SaveApiKeys(r) ==
    /\ keyRequests[r].pc = "selected"
    /\ LET body == keyRequests[r].body
           keys == KeyRecord(Or(body.openaiKey, <<>>), Or(body.geminiKey, <<>>),
                             Or(body.aiProvider, s_openai))
       IN  keyRows' = IF keyRequests[r].existing
                      THEN [keyRows EXCEPT ![1] = keys]
                      ELSE Append(keyRows, keys)
    /\ keyRequests' = [keyRequests EXCEPT ![r].pc = "done"]
    /\ UNCHANGED <<keyState, keyInputs, settingsToast,
                   practiceVars, dedupVars, columnVars, importVars, extractVars, ocrVars, storeVars>>

\* GET /api/keys: the first record, the default when there is none
StoredKeys == IF Len(keyRows) > 0 THEN keyRows[1] ELSE KeyRecord(<<>>, <<>>, s_openai)

NextSettings ==
    \/ handleSave
    \/ \E r \in SaveRequests : GetApiKeys(r)
    \/ \E r \in SaveRequests : SaveApiKeys(r)

-----------------------------------------------------------------------------
(* Specifications                                                          *)

PracticeStart == InitPractice /\ IdleDedup /\ IdleColumn /\ IdleImport /\ IdleExtract /\ IdleOcr /\ IdleStore /\ IdleSettings
SpecPractice == PracticeStart /\ [][NextPractice]_vars

ColumnStart == IdlePractice /\ IdleDedup /\ InitColumn /\ IdleImport /\ IdleExtract /\ IdleOcr /\ IdleStore /\ IdleSettings
SpecColumn == ColumnStart /\ [][NextColumn]_vars

ImportStart == IdlePractice /\ IdleDedup /\ IdleColumn /\ InitImport /\ IdleExtract /\ IdleOcr /\ IdleStore /\ IdleSettings
SpecImport == ImportStart /\ [][NextImport]_vars

DedupStart == IdlePractice /\ InitDedup /\ IdleColumn /\ IdleImport /\ IdleExtract /\ IdleOcr /\ IdleStore /\ IdleSettings
SpecDedup == DedupStart /\ [][NextDedup]_vars

ExtractStart == IdlePractice /\ IdleDedup /\ IdleColumn /\ IdleImport /\ InitExtract /\ IdleOcr /\ IdleStore /\ IdleSettings
SpecExtract == ExtractStart /\ [][NextExtract]_vars

OcrStart == IdlePractice /\ IdleDedup /\ IdleColumn /\ IdleImport /\ IdleExtract /\ InitOcr /\ IdleStore /\ IdleSettings
SpecOcr == OcrStart /\ [][NextOcr]_vars

StoreStart == IdlePractice /\ IdleDedup /\ IdleColumn /\ IdleImport /\ IdleExtract /\ IdleOcr /\ InitStore /\ IdleSettings
SpecStore == StoreStart /\ [][NextStore]_vars

SettingsStart == IdlePractice /\ IdleDedup /\ IdleColumn /\ IdleImport /\ IdleExtract /\ IdleOcr /\ IdleStore /\ InitSettings
SpecSettings == SettingsStart /\ [][NextSettings]_vars

-----------------------------------------------------------------------------
(* Claims about answer-format resolution (checked under SpecPractice)      *)

\* The answer forms as the specification words them, independent of the
\* regular expressions above. The whole pattern is matched case-insensitively
\* and the optional separator is one white-space character.
LabeledShape(t) ==
    \E sep \in {<<>>, <<" ">>, <<"\t">>, <<"\n">>} :
        \E x \in {"a", "b", "c", "d", "1", "2", "3", "4"} :
            toLowerCase(t) = sOption \o sep \o <<x>>

BareLetterShape(t) == \E x \in {"a", "b", "c", "d"} : toLowerCase(t) = <<x>>

\* letter - 'A', or digit - 1
ShapeIndex(t) ==
    LET c == toUpperChar(t[Len(t)])
    IN  IF c \in {"A", "B", "C", "D"}
        THEN PosIn(<<"A", "B", "C", "D">>, c) - 1
        ELSE PosIn(<<"1", "2", "3", "4">>, c) - 1

CorrectText == trim(question.correctAnswer)
Answered == Truthy(answers)
StatsSaysCorrect == stats.correct = 1
LiteralMatch == toLowerCase(trim(answers)) = toLowerCase(CorrectText)

C4_LiteralForm ==
    (Answered /\ ~LabeledShape(CorrectText) /\ ~BareLetterShape(CorrectText)) =>
        /\ StatsSaysCorrect <=> LiteralMatch
        /\ isSelectedCorrect <=> LiteralMatch

\* C4 witness: a literal correctAnswer (" VENUS\n") matched by a selected
\* option that differs from it in case and surrounding white space, and
\* judged correct by both implementations.
C4_Witness ==
    /\ Answered
    /\ ~LabeledShape(CorrectText) /\ ~BareLetterShape(CorrectText)
    /\ answers # question.correctAnswer
    /\ LiteralMatch
    /\ StatsSaysCorrect /\ isSelectedCorrect

\* C5 (statement of the claim): an answered option is judged incorrect only
\* when none of the three forms matches it; in particular the literal-text
\* comparison still applies after a labeled or bare letter index missed.
C5_FallsThroughToLiteral ==
    (Answered /\ LiteralMatch) => (StatsSaysCorrect /\ isSelectedCorrect)

\* C5 (amended): the form is chosen by the shape of correctAnswer alone.
\* If correctAnswer has the labeled-option or bare letter form and
\* options[index] is not the selected text, the option is judged incorrect
\* even when its text equals correctAnswer literally; the literal comparison
\* decides only when correctAnswer has neither form.
C5_FormChosenByShape ==
    Answered =>
        IF LabeledShape(CorrectText) \/ BareLetterShape(CorrectText)
        THEN (At(question.options, ShapeIndex(CorrectText)) # answers)
                 => (~StatsSaysCorrect /\ ~isSelectedCorrect)
        ELSE /\ StatsSaysCorrect <=> LiteralMatch
             /\ isSelectedCorrect <=> LiteralMatch

\* C5 witness: correctAnswer "B", the selected option is the text "B" standing
\* at index 0, and it is judged incorrect although it equals correctAnswer.
C5_Witness ==
    /\ Answered
    /\ BareLetterShape(CorrectText)
    /\ LiteralMatch
    /\ At(question.options, ShapeIndex(CorrectText)) # answers
    /\ ~StatsSaysCorrect /\ ~isSelectedCorrect

\* the index of a labeled-option or bare letter correctAnswer lies outside
\* the options
IndexOutOfRange ==
    /\ LabeledShape(CorrectText) \/ BareLetterShape(CorrectText)
    /\ ShapeIndex(CorrectText) >= Len(question.options)

\* C23: when the index computed from a labeled-option or bare letter
\* correctAnswer lies outside the options ('D' or 'Option 4' with 2 or 3
\* options), every selected option is judged incorrect by the statistics and
\* by the question card, and the verdict is computed (nothing is raised: the
\* answer is counted as incorrect).
C23_OutOfRangeIsNoMatch ==
    (Answered /\ IndexOutOfRange) =>
        /\ ~StatsSaysCorrect /\ stats.incorrect = 1
        /\ ~isSelectedCorrect

\* C23 witness: correctAnswer "Option 4" or "D" on a question with two or
\* three options, an option selected and counted as incorrect.
C23_Witness ==
    /\ Answered /\ IndexOutOfRange
    /\ Len(question.options) \in {2, 3}
    /\ ShapeIndex(CorrectText) = 3
    /\ stats.incorrect = 1 /\ ~isSelectedCorrect

-----------------------------------------------------------------------------
(* Claims about the deduplicator (checked under SpecDedup)                 *)

NoCaseDup(out) ==
    \A i, j \in DOMAIN out : i < j => toLowerCase(out[i]) # toLowerCase(out[j])

FirstPos(in, x) == SetMin({i \in DOMAIN in : in[i] = x})

\* every element of out is an element of in, the elements of out stand in the
\* order of their first occurrences in in, and each is the first element of
\* in with its value under case-insensitive comparison
KeepsFirstOccurrences(out, in) ==
    /\ \A k \in DOMAIN out : \E i \in DOMAIN in : in[i] = out[k]
    /\ \A k, l \in DOMAIN out : k < l => FirstPos(in, out[k]) < FirstPos(in, out[l])
    /\ \A k \in DOMAIN out : \A j \in 1..(FirstPos(in, out[k]) - 1) :
           toLowerCase(in[j]) # toLowerCase(out[k])

\* the strings the OCR deduplication receives: the coerced, trimmed options
OcrDedupInput == [i \in DOMAIN rawOptions |-> trim(rawOptions[i])]

\* C1: the deduplicated options hold no two elements equal under
\* case-insensitive comparison, every one of them is an element of the input,
\* and they keep the order of the first occurrences; every input value is
\* still represented (up to case, and in the tabular import up to surrounding
\* white space, blank cells being dropped). Tabular import and OCR cleaning.
C1_DedupFirstOccurrences ==
    /\ "csv" \in dedupPc =>
           /\ NoCaseDup(csvOptions)
           /\ KeepsFirstOccurrences(csvOptions, rawOptions)
           /\ \A i \in DOMAIN rawOptions :
                  trim(rawOptions[i]) # <<>> =>
                      \E k \in DOMAIN csvOptions :
                          toLowerCase(trim(csvOptions[k])) = toLowerCase(trim(rawOptions[i]))
    /\ "ocr" \in dedupPc =>
           /\ NoCaseDup(ocrDeduped)
           /\ KeepsFirstOccurrences(ocrDeduped, OcrDedupInput)
           /\ \A i \in DOMAIN OcrDedupInput :
                  \E k \in DOMAIN ocrDeduped :
                      toLowerCase(ocrDeduped[k]) = toLowerCase(OcrDedupInput[i])

\* C1 witness: both clean-ups ran on a list in which a value recurs in another
\* case after a different value, and each kept at least two options while
\* dropping the recurrence.
C1_Witness ==
    /\ dedupPc = {"csv", "ocr"}
    /\ \E i, j, k \in DOMAIN rawOptions :
           /\ i < j /\ j < k
           /\ rawOptions[i] # rawOptions[k]
           /\ toLowerCase(rawOptions[i]) = toLowerCase(rawOptions[k])
           /\ toLowerCase(trim(rawOptions[j])) # toLowerCase(trim(rawOptions[i]))
           /\ trim(rawOptions[i]) # <<>> /\ trim(rawOptions[j]) # <<>>
    /\ Len(csvOptions) >= 2 /\ Len(csvOptions) < Len(FilterNonBlank(rawOptions))
    /\ Len(ocrDeduped) >= 2 /\ Len(ocrDeduped) < Len(rawOptions)

-----------------------------------------------------------------------------
(* Claims about column resolution (checked under SpecColumn)               *)

ColHeader(i) == colRow[i].k
ColCell(i) == colRow[i].v

\* headers (by position in the sheet) that equal the target, trimmed and
\* case-insensitively
ExactHeaders ==
    {i \in DOMAIN colRow : toLowerCase(trim(ColHeader(i))) = toLowerCase(colTarget)}

\* a header the fuzzy step must not choose for the target "Question"
NumberingHeader(i) ==
    \/ includes(toLowerCase(ColHeader(i)), s_no)
    \/ includes(toLowerCase(ColHeader(i)), s_id)
    \/ includes(toLowerCase(ColHeader(i)), s_number)

\* headers that contain the target case-insensitively, numbering headers
\* excepted when the target is "Question"
FuzzyHeaders ==
    {i \in DOMAIN colRow :
        /\ includes(toLowerCase(ColHeader(i)), toLowerCase(colTarget))
        /\ ~(toLowerCase(colTarget) = s_question /\ NumberingHeader(i))}

\* C9: getVal returns the cell of the first header equal to the target
\* (trimmed, case-insensitive); only if there is none, the cell of the first
\* header containing the target, never a header containing "no", "id" or
\* "number" when the target is "Question"; otherwise the field is absent.
C9_ColumnResolution ==
    colPc = "done" =>
        /\ colVal = IF ExactHeaders # {} THEN ColCell(SetMin(ExactHeaders))
                    ELSE IF FuzzyHeaders # {} THEN ColCell(SetMin(FuzzyHeaders))
                    ELSE Undefined
        /\ toLowerCase(colTarget) = s_question =>
               \A i \in DOMAIN colRow :
                   (NumberingHeader(i) /\ ColCell(i) # <<>>) => colVal # ColCell(i)

\* C9 witness: the target "Question" has no exact header, "Question No."
\* stands before a header that contains "question", and getVal returned the
\* cell of the latter.
C9_Witness ==
    /\ colPc = "done"
    /\ toLowerCase(colTarget) = s_question
    /\ ExactHeaders = {}
    /\ \E i, j \in DOMAIN colRow :
           /\ i < j
           /\ NumberingHeader(i) /\ includes(toLowerCase(ColHeader(i)), s_question)
           /\ ColCell(i) # <<>>
           /\ j \in FuzzyHeaders
           /\ colVal = ColCell(j) /\ colVal # <<>>

-----------------------------------------------------------------------------
(* Claims about the tabular row normalizer (checked under SpecImport)      *)

\* a step of the forEach loop: the callback handles the row held in row'
RowStep == importPc = "rows" /\ index' = index + 1

Skipped ==
    /\ skippedCount' = skippedCount + 1
    /\ processedQuestions' = processedQuestions

Imported ==
    /\ skippedCount' = skippedCount
    /\ Len(processedQuestions') = Len(processedQuestions) + 1
    /\ SubSeq(processedQuestions', 1, Len(processedQuestions)) = processedQuestions

LastQuestion == processedQuestions'[Len(processedQuestions')]

NonBlank(v) == v # Undefined /\ trim(v) # <<>>

\* the data rows of all sheets
AllRows == UNION {SheetRows[hs] : hs \in DOMAIN SheetRows}

\* the question value resolved for each row
QuestionValue == [r \in AllRows |-> getVal(r, s_Question)]

\* C6: a row for which no question value is resolved (no matching header, or
\* an empty cell) is skipped by the forEach callback: skippedCount grows by
\* exactly one, no Question is pushed, and the loop goes on.
C6_MissingQuestionSkipped ==
    [][(RowStep /\ ~Truthy(QuestionValue[row']))
           => (Skipped /\ importPc' = "rows" /\ toast' = toast)]_vars

\* C6 witness: under a header row whose only mention of the question is
\* "Question No.", both rows were handled and skipped although each holds two
\* options.
C6_Witness ==
    /\ importPc = "rows" /\ index = 2 /\ skippedCount = 2
    /\ processedQuestions = <<>>
    /\ \E i \in 1..Len(headers) : includes(toLowerCase(headers[i]), s_question)
    /\ ~Truthy(getVal(row, s_Question))
    /\ Len(FilterNonBlank(RowOptions(row))) >= 2

\* number of option values of row r that remain after discarding blank
\* values and identifying values whose trimmed text differs only in case
RemainingOptions ==
    [r \in AllRows |->
        LET opts == RowOptions(r)
        IN  Cardinality({toLowerCase(trim(opts[i])) :
                            i \in {j \in 1..Len(opts) : NonBlank(opts[j])}})]

\* C7: a row is imported only if at least 2 options remain after discarding
\* blank values and deduplicating case-insensitively, a row with fewer is
\* skipped and counted, and every imported Question has 2 to 4 options.
C7_AtLeastTwoOptions ==
    /\ [](\A i \in 1..Len(processedQuestions) :
              /\ Len(processedQuestions[i].options) >= 2
              /\ Len(processedQuestions[i].options) <= 4)
    /\ [][RowStep => /\ Imported => RemainingOptions[row'] >= 2
                     /\ RemainingOptions[row'] < 2 => Skipped]_vars

\* C7 witness: the first row was imported with its four options, the second
\* has a question and several option cells of which one value remains, and
\* was skipped.
C7_Witness ==
    /\ importPc = "rows" /\ index = 2 /\ skippedCount = 1
    /\ Len(processedQuestions) = 1
    /\ Len(processedQuestions[1].options) = 4
    /\ Truthy(getVal(row, s_Question))
    /\ Len(FilterNonBlank(RowOptions(row))) >= 2
    /\ RemainingOptions[row] = 1

\* the option values of the four strategies for row r, whitespace-only and
\* empty cells not counting
StrategyValues(r, n) ==
    LET Cells(labels, Lookup(_)) ==
            SelectSeq([i \in 1..Len(labels) |-> Lookup(labels[i])], NonBlank)
    IN  CASE n = 1 -> Cells(optionLabels, LAMBDA l : Get(r, l))
          [] n = 2 -> Cells(legacyLabels, LAMBDA l : Get(r, l))
          [] n = 3 -> Cells(letterLabels, LAMBDA l : Get(r, l))
          [] n = 4 -> Cells(optionLabels, LAMBDA l : getVal(r, l))

FirstYieldingStrategy ==
    [r \in AllRows |->
        IF \E n \in 1..4 : StrategyValues(r, n) # <<>>
        THEN StrategyValues(r, SetMin({n \in 1..4 : StrategyValues(r, n) # <<>>}))
        ELSE <<>>]

\* C8 (statement of the claim): the options of a row are those of the first
\* strategy (a) 'Option A'..'Option D', (b) 'Option1'..'Option4', (c) 'A'..'D',
\* (d) fuzzy 'Option A'..'Option D' that yields a non-blank value; e.g. blank
\* 'Option A'..'Option D' cells and filled 'Option1'..'Option4' cells give the
\* options of (b).
C8_FirstStrategyWithValue ==
    [][(RowStep /\ Truthy(QuestionValue[row']))
           => LET expected == deduplicatedOptions(FirstYieldingStrategy[row'])
              IN  IF Len(expected) >= 2
                  THEN Imported /\ LastQuestion.options = expected
                  ELSE Skipped]_vars

\* the value the correctAnswer of row r is taken from, by precedence
FirstCorrectValue ==
    [r \in AllRows |->
        IF Get(r, s_CorrectAnswer) \notin {Undefined, <<>>} THEN Get(r, s_CorrectAnswer)
        ELSE IF getVal(r, s_CorrectAnswer) \notin {Undefined, <<>>} THEN getVal(r, s_CorrectAnswer)
        ELSE IF getVal(r, s_Correct) \notin {Undefined, <<>>} THEN getVal(r, s_Correct)
        ELSE IF getVal(r, s_Answer) \notin {Undefined, <<>>} THEN getVal(r, s_Answer)
        ELSE Undefined]

\* C10: the correctAnswer of an imported Question is the first non-empty value
\* among the 'Correct Answer' column, getVal('Correct Answer'),
\* getVal('Correct'), getVal('Answer'); if there is none, the first option
\* that survived filtering and deduplication; it is never empty.
C10_CorrectAnswerPrecedence ==
    /\ [](\A i \in 1..Len(processedQuestions) :
              processedQuestions[i].correctAnswer \notin {Undefined, <<>>})
    /\ [][(RowStep /\ Imported)
              => LastQuestion.correctAnswer =
                     IF FirstCorrectValue[row'] # Undefined
                     THEN FirstCorrectValue[row']
                     ELSE LastQuestion.options[1]]_vars

\* C10 witness: two imported rows of a sheet with a 'Correct Option' and an
\* 'Answer Note' column: the first takes its correctAnswer from the fuzzy
\* 'Answer' match because every earlier source is empty, the second from the
\* fuzzy 'Correct' match.
C10_Witness ==
    /\ importPc = "rows" /\ Len(processedQuestions) = 2
    /\ Get(row, s_CorrectAnswer) = Undefined
    /\ getVal(row, s_CorrectAnswer) = Undefined
    /\ Truthy(getVal(row, s_Correct))
    /\ Truthy(getVal(row, s_Answer))
    /\ getVal(row, s_Answer) # getVal(row, s_Correct)
    /\ processedQuestions[2].correctAnswer = getVal(row, s_Correct)
    /\ processedQuestions[1].correctAnswer = getVal(row, s_Answer)

-----------------------------------------------------------------------------
(* Claims about the import orchestrator (checked under SpecImport)         *)

\* the topic cell of each row: the 'Topic' column, else a fuzzy 'Topic' column
TopicCell ==
    [r \in AllRows |->
        IF Get(r, s_Topic) \notin {Undefined, <<>>} THEN Get(r, s_Topic)
        ELSE IF getVal(r, s_Topic) \notin {Undefined, <<>>} THEN getVal(r, s_Topic)
        ELSE Undefined]

\* the topic a row resolves to
ResolvedTopic(r) ==
    IF TopicCell[r] # Undefined THEN TopicCell[r]
    ELSE IF StripExtension(sourceName) # <<>> THEN StripExtension(sourceName)
    ELSE s_General

\* C11 (statement of the claim): the topic of an imported Question is the
\* row's 'Topic' cell, else a fuzzy 'Topic' column, else the source name
\* without its .csv/.txt/.xlsx/.xls suffix, else 'General' when that name is
\* empty; every Question of an emitted Topic has a topic field equal to the
\* Topic's name.
C11_TopicFieldIsTopicName ==
    /\ [](\A t \in 1..Len(imported) : \A k \in 1..Len(imported[t].questions) :
              imported[t].questions[k].topic = imported[t].name)
    /\ [][(RowStep /\ Imported) => LastQuestion.topic = ResolvedTopic(row')]_vars

\* the canonical header row
CanonicalHeaders ==
    << <<"Q", "u", "e", "s", "t", "i", "o", "n", " ", "N", "o", ".">>,
       <<"Q", "u", "e", "s", "t", "i", "o", "n">>,
       <<"O", "p", "t", "i", "o", "n", " ", "A">>,
       <<"O", "p", "t", "i", "o", "n", " ", "B">>,
       <<"O", "p", "t", "i", "o", "n", " ", "C">>,
       <<"O", "p", "t", "i", "o", "n", " ", "D">>,
       <<"C", "o", "r", "r", "e", "c", "t", " ", "A", "n", "s", "w", "e", "r">>,
       <<"E", "x", "p", "l", "a", "n", "a", "t", "i", "o", "n">> >>

\* the cell of row r in the column at position i
Cell(r, i) == r[i].v

\* the import of a one-row canonical sheet has ended
CanonicalImportDone ==
    importPc = "done" /\ headers = CanonicalHeaders /\ rowCount = 1

\* exactly one Topic with exactly one Question, whose options are the four
\* option cells of row r in A..D order and whose correctAnswer is the
\* 'Correct Answer' cell
RoundTrip(r) ==
    /\ Len(imported) = 1
    /\ Len(imported[1].questions) = 1
    /\ imported[1].questions[1].question = Cell(r, 2)
    /\ imported[1].questions[1].options = <<Cell(r, 3), Cell(r, 4), Cell(r, 5), Cell(r, 6)>>
    /\ imported[1].questions[1].correctAnswer = Cell(r, 7)

GroupName(q) == IF q.topic # <<>> THEN q.topic ELSE s_General

\* the distinct group names of qs in the order in which they are first seen
RECURSIVE FirstSeenNames(_, _)
FirstSeenNames(qs, seen) ==
    IF qs = <<>> THEN seen
    ELSE IF \E i \in 1..Len(seen) : seen[i] = GroupName(Head(qs))
         THEN FirstSeenNames(Tail(qs), seen)
         ELSE FirstSeenNames(Tail(qs), Append(seen, GroupName(Head(qs))))

\* ids handed out during the import
QuestionIds == {processedQuestions[i].id : i \in 1..Len(processedQuestions)}
TopicIds == {imported[t].id : t \in 1..Len(imported)}

\* one Topic per distinct name, each with a fresh id and its questions in row
\* order
OneTopicPerName ==
    /\ Len(imported) = Len(FirstSeenNames(processedQuestions, <<>>))
    /\ {imported[t].name : t \in 1..Len(imported)} =
           {GroupName(processedQuestions[i]) : i \in 1..Len(processedQuestions)}
    /\ Cardinality(TopicIds) = Len(imported)
    /\ TopicIds \cap QuestionIds = {}
    /\ \A t \in 1..Len(imported) :
           imported[t].questions =
               SelectSeq(processedQuestions, LAMBDA q : GroupName(q) = imported[t].name)

\* C13 (statement of the claim): a successful import emits exactly one Topic
\* per distinct resolved topic name, each with a fresh id and its questions in
\* row order, and the Topics are emitted in the order in which their names
\* are first seen among the imported rows.
C13_TopicsInFirstSeenOrder ==
    (importPc = "done" /\ toast = "Import Successful")
        => /\ OneTopicPerName
           /\ [t \in 1..Len(imported) |-> imported[t].name] =
                  FirstSeenNames(processedQuestions, <<>>)

\* C14: when every row of a batch is skipped the import ends with the
\* No Questions Found outcome: onImport is not called and no Topic, in
\* particular no empty Topic, is created.
C14_NoValidRows ==
    /\ (/\ importPc = "done" /\ toast # "Invalid Format"
        /\ index = rowCount /\ skippedCount = rowCount)
           => (toast = "No Questions Found" /\ imported = <<>>)
    /\ \A t \in 1..Len(imported) : imported[t].questions # <<>>

\* C14 witness: a batch of two rows, both skipped, has ended.
C14_Witness ==
    /\ importPc = "done" /\ rowCount = 2 /\ index = 2 /\ skippedCount = 2
    /\ processedQuestions = <<>>
    /\ toast = "No Questions Found"
    /\ imported = <<>>

\* whether a row is imported, as a function of the row alone
Importable == [r \in AllRows |-> Truthy(QuestionValue[r]) /\ RemainingOptions[r] >= 2]

\* C15: a skipped row never aborts the batch: every row handled so far is
\* either imported or skipped (imported + skipped = rows handled, and = n once
\* the batch has ended), imported Questions are appended in row order, and
\* whether a row is imported depends on that row alone.
C15_RowsCountedIndependently ==
    /\ [](Len(processedQuestions) + skippedCount = index)
    /\ []((importPc = "done" /\ toast # "Invalid Format")
              => Len(processedQuestions) + skippedCount = rowCount)
    /\ [][RowStep => /\ Imported \/ Skipped
                     /\ Imported <=> Importable[row']
                     /\ importPc' = "rows"]_vars

\* C15 witness: a batch of two rows has ended with success; the first row
\* was skipped, the second imported.
C15_Witness ==
    /\ importPc = "done" /\ toast = "Import Successful"
    /\ rowCount = 2 /\ skippedCount = 1 /\ Len(processedQuestions) = 1
    /\ Importable[row]
    /\ Len(imported) = 1

-----------------------------------------------------------------------------
(* Claims about the JSON extractor and the OCR path (checked under         *)
(* SpecExtract)                                                            *)

\* the handler has run
Extracted == extractPc \in {"responded", "done"} /\ request = ExtractRequest

\* positions of the braces in the de-fenced reply
OpeningBraces == {i \in 1..Len(DefencedText(responseText)) : DefencedText(responseText)[i] = "{"}
ClosingBraces == {i \in 1..Len(DefencedText(responseText)) : DefencedText(responseText)[i] = "}"}

NoObjectSpan ==
    \/ OpeningBraces = {}
    \/ ClosingBraces = {}
    \/ ~(SetMin(OpeningBraces) < SetMax(ClosingBraces))

\* the questions a response carries
ResponseQuestions(w) ==
    IF JGet(w.body, k_questions).tag = "arr" THEN JGet(w.body, k_questions).items ELSE <<>>

\* the handler answered with an error only and no question reached the page
FailedWithoutQuestions ==
    /\ \A i \in 1..Len(written) : written[i].status = 400 /\ ResponseQuestions(written[i]) = <<>>
    /\ delivered.status = 400
    /\ allQuestions = <<>>

\* C16: the extractor fails with the no-JSON outcome, and returns no
\* questions, exactly when the de-fenced text holds no '{', no '}', or its
\* first '{' is not strictly before its last '}'; otherwise the text that is
\* repaired and parsed is the slice from the first '{' to the last '}'
\* inclusive. Both servers.
C16_BraceSpan ==
    Extracted =>
        IF NoObjectSpan
        THEN /\ extraction.outcome = "NoJson"
             /\ FailedWithoutQuestions
             /\ delivered.error = "[DEBUG] Gemini returned no JSON"
        ELSE /\ extraction.outcome # "NoJson"
             /\ extraction.slice = SubSeq(DefencedText(responseText),
                                          SetMin(OpeningBraces), SetMax(ClosingBraces))

\* C16 witness: a reply that holds both braces, the last '}' before the first
\* '{', was answered with the no-JSON error.
C16_Witness ==
    /\ Extracted
    /\ OpeningBraces # {} /\ ClosingBraces # {}
    /\ SetMin(OpeningBraces) > SetMax(ClosingBraces)
    /\ extraction.outcome = "NoJson"
    /\ delivered.status = 400

\* C17 (statement of the claim): a parsed reply whose questions field is an
\* empty sequence is answered with a success result that holds zero
\* questions, not with an error.
C17_EmptyIsSuccess ==
    (Extracted /\ JGet(extraction.result, k_questions) = JArr(<<>>))
        => /\ delivered.status = 200
           /\ JGet(delivered.body, k_questions) = JArr(<<>>)

\* C18 (statement of the claim): every question of a response with status
\* 200 has exactly 4 options, on both servers.
C18_ExactlyFourOptions ==
    \A i \in 1..Len(written) :
        written[i].status = 200 =>
            \A k \in 1..Len(ResponseQuestions(written[i])) :
                /\ JGet(ResponseQuestions(written[i])[k], k_options).tag = "arr"
                /\ Len(JGet(ResponseQuestions(written[i])[k], k_options).items) = 4

\* no two entries of the option list v are equal up to case
NoTwoEqualOptions(v) ==
    \A i, j \in 1..Len(v.items) :
        i < j => toLowerCase(JString(v.items[i])) # toLowerCase(JString(v.items[j]))

\* C19 (statement of the claim): in every Question produced by the tabular
\* import or by the OCR extraction and cleaning, no two entries of options are
\* equal under case-insensitive comparison.
C19_NoEqualOptions ==
    /\ \A i \in 1..Len(processedQuestions) : NoCaseDup(processedQuestions[i].options)
    /\ \A i \in 1..Len(written) :
           written[i].status = 200 =>
               \A k \in 1..Len(ResponseQuestions(written[i])) :
                   NoTwoEqualOptions(JGet(ResponseQuestions(written[i])[k], k_options))
    /\ \A k \in 1..Len(allQuestions) : NoTwoEqualOptions(JGet(allQuestions[k], k_options))

\* the trimmed pageNo field of the parsed reply, "" when it has none
BatchPageNo ==
    IF JGet(extraction.result, k_pageNo).tag \in {"str", "num"}
    THEN trim(JGet(extraction.result, k_pageNo).str)
    ELSE <<>>

\* C20 (statement of the claim): every question of one extraction carries
\* the trimmed pageNo of the parsed reply, in the response of either server
\* and after the page has mapped the response into Questions.
C20_PageNoOfBatch ==
    /\ \A i \in 1..Len(written) :
           written[i].status = 200 =>
               \A k \in 1..Len(ResponseQuestions(written[i])) :
                   JGet(ResponseQuestions(written[i])[k], k_pageNo) = JStr(BatchPageNo)
    /\ \A k \in 1..Len(allQuestions) : JGet(allQuestions[k], k_pageNo) = JStr(BatchPageNo)

\* what JSON.parse makes of the repaired slice
ParsedSlice == JSONparse(DropTrailingCommas(extraction.slice, 1))

\* C24: when the reply parses and the parsed value has no questions field
\* or one that is no sequence, the extraction fails with the invalid-format
\* outcome and no question is returned, on both servers; a reply that has no
\* object span or does not parse never has that outcome.
C24_InvalidShape ==
    Extracted =>
        IF ~NoObjectSpan /\ ParsedSlice.ok /\ JGet(ParsedSlice.v, k_questions).tag # "arr"
        THEN /\ extraction.outcome = "InvalidFormat"
             /\ FailedWithoutQuestions
             /\ delivered.error = "[DEBUG] Invalid format"
        ELSE extraction.outcome # "InvalidFormat"

\* C24 witness: a reply that parses to an object whose questions field is a
\* string was answered with the invalid-format error.
C24_Witness ==
    /\ extractPc = "done"
    /\ ParsedSlice.ok
    /\ JGet(ParsedSlice.v, k_questions).tag = "str"
    /\ extraction.outcome = "InvalidFormat"
    /\ delivered.status = 400 /\ allQuestions = <<>>

\* the worker has answered a request
WorkerAnswered == extractPc \in {"responded", "done"} /\ entryPoint = "worker"

\* the request matches a route of handleApiRoute
MatchesRoute == request = ExtractRequest \/ request.path \in {"/api/topics", "/api/keys"}

\* C28 (statement of the claim): the response the worker delivers is the one
\* set by the route that handled the request, and it is set exactly once: a
\* successful extraction is answered with status 200 and the parsed result,
\* /api/topics and /api/keys with status 200 and their bodies, and 404 'Not
\* found' only when the request matched no route.
C28_ResponseOfTheRoute ==
    WorkerAnswered =>
        /\ Len(written) = 1
        /\ (request = ExtractRequest /\ extraction.outcome = "Ok")
               => delivered = Response(200, "", extraction.result)
        /\ request.path = "/api/topics" => delivered = Response(200, "", JArr(<<>>))
        /\ request.path = "/api/keys" => delivered = Response(200, "", EmptyKeys)
        /\ delivered.status = 404 => ~MatchesRoute

-----------------------------------------------------------------------------
(* Claims about the OCR page (checked under SpecOcr)                       *)

\* the questions of a file whose extraction succeeded on the server (the
\* handler wrote a response with status 200), as the page maps them
Ok200(writes) == {i \in 1..Len(writes) : writes[i].status = 200}
QuestionsOf200(writes, made) ==
    IF Ok200(writes) # {} THEN ImageQuestions(writes[SetMin(Ok200(writes))], made) ELSE <<>>
SuccessfulQuestions(file, made) ==
    IF file.kind = "answered"
    THEN QuestionsOf200(WritesOf(ocrServer, ExtractionOf[file.text]), made)
    ELSE <<>>

\* the concatenation, in selected-file order, of the questions of every
\* successful extraction among the first n files
RECURSIVE Concatenation(_)
Concatenation(n) ==
    IF n = 0 THEN <<>>
    ELSE Concatenation(n - 1)
             \o SuccessfulQuestions(selectedFiles[n], Len(Concatenation(n - 1)))

\* C25 (statement of the claim): every image is processed independently
\* and the results are concatenated: a failed or empty extraction for one
\* image neither discards nor blocks the questions of the others, the
\* collected questions are the concatenation, in selected-file order, of the
\* questions of every successful extraction, and the topic selection is
\* reached exactly when that concatenation is not empty.
C25_ImagesIndependent ==
    /\ ocrPc = "loop" => collected = Concatenation(fileIndex - 1)
    /\ (ocrPc = "done" /\ Len(selectedFiles) > 0) =>
           /\ showTopicSelection <=> (Concatenation(Len(selectedFiles)) # <<>>)
           /\ showTopicSelection => extractedQuestions = Concatenation(Len(selectedFiles))

-----------------------------------------------------------------------------
(* Claims about the topic store                                            *)

\* the questions held by the topics of a list, and their ids
StoredQuestions(list) ==
    UNION {{list[i].questions[k] : k \in 1..Len(list[i].questions)} : i \in 1..Len(list)}
QuestionIdsOf(list) == {q.id : q \in StoredQuestions(list)}

\* a list after a merge of `added` into the topic with `id`: that topic's
\* questions are the previous ones followed by the added ones, and every
\* other topic is as before
AppendedTo(before, after, id, added) ==
    /\ Len(after) = Len(before)
    /\ \A i \in 1..Len(before) :
          IF before[i].id = id
          THEN after[i].questions = before[i].questions \o added
          ELSE after[i] = before[i]

\* C21: a merge into the id of an existing topic appends: in the client
\* store (addTopic, on either path) and on the server (POST /api/topics) the
\* topic's questions after the merge are the questions it had before
\* followed by the new ones in order, and no other topic is changed.
C21_MergeAppends ==
    [][\A c \in 1..MaxCalls :
          /\ (HandleTopicResponse(c) /\ calls[c].topic.id \in TopicIdsOf(topics))
                => AppendedTo(topics, topics', calls[c].topic.id, calls[c].topic.questions)
          /\ UpdateTopic(c)
                => AppendedTo(dbTopics, dbTopics', calls[c].topic.id, calls[c].topic.questions)]_vars

\* the two requests have both merged into the same existing topic and have
\* both completed
BothMerged(c, d) ==
    /\ c # d
    /\ calls[c].pc \in {"answered", "done"} /\ calls[d].pc \in {"answered", "done"}
    /\ calls[c].snapshot # NoTopic /\ calls[d].snapshot # NoTopic
    /\ calls[c].topic.id = calls[d].topic.id

\* C27: once two POST /api/topics requests that merge into the same
\* existing topic have both completed, the stored topic holds the questions
\* stored before and the questions of both requests.
C27_NoMergedQuestionLost ==
    \A c, d \in 1..MaxCalls :
        BothMerged(c, d) =>
            LET stored == dbTopics[FindTopic(dbTopics, calls[c].topic.id)].questions
                held == {stored[k].id : k \in 1..Len(stored)}
                Ids(qs) == {qs[k].id : k \in 1..Len(qs)}
            IN  /\ Ids(StoredTopic.questions) \subseteq held
                /\ Ids(calls[c].topic.questions) \subseteq held
                /\ Ids(calls[d].topic.questions) \subseteq held

\* C22: the pageNo of a Question is never dropped or overwritten: every
\* copy of a Question held by the store, by localStorage or by the server
\* has the pageNo the Question was handed to addTopic with (the empty string
\* when it had none), whatever was imported before or after it.
C22_PageNoKept ==
    \A q \in StoredQuestions(topics) \cup StoredQuestions(localData.topics)
                \cup StoredQuestions(dbTopics) :
        \A a \in accepted :
            a.id = q.id => q.pageNo = Or(a.pageNo, <<>>)

\* a Question read from a page numbered " 7" was merged into the stored
\* topic on the server, after the Question stored before, and the store
\* holds it with that pageNo
C22_Witness ==
    /\ Len(dbTopics) = 1 /\ Len(dbTopics[1].questions) >= 2
    /\ dbTopics[1].questions[1].pageNo = <<"3">>
    /\ dbTopics[1].questions[2].pageNo = <<" ", "7">>
    /\ Len(topics) = 1 /\ Len(topics[1].questions) >= 2
    /\ topics[1].questions[2].pageNo = <<" ", "7">>
    /\ \E c \in 1..MaxCalls : calls[c].pc = "done" /\ calls[c].response.ok

\* C30: after a reload of the store every Question handed to addTopic is
\* in the loaded topics.
C30_NothingLostOnReload ==
    [][loadData => \A a \in accepted : a.id \in QuestionIdsOf(topics')]_vars

-----------------------------------------------------------------------------
(* Claims about the settings page                                          *)

\* handleSave ran with at least one key entered and its three requests have
\* all completed
KeysSaved ==
    /\ settingsToast = "Settings Saved"
    /\ \A r \in SaveRequests : keyRequests[r].pc = "done"

\* C29: after handleSave with at least one key entered, once its three
\* requests have completed in whatever order, the key record of the server
\* holds the two keys as entered and the final provider.
C29_SavedAsEntered ==
    KeysSaved =>
        StoredKeys = KeyRecord(keyInputs.openaiKey, keyInputs.geminiKey,
                               FinalProvider(keyInputs.openaiKey, keyInputs.geminiKey,
                                             keyInputs.aiProvider))

====
